---- MODULE Spec2Model ----
(***************************************************************************)
(* Configuration and permission layer of the chat CLI:                     *)
(*   - agent.rs      Agent, Agent::eval_perm, AgentCollection,             *)
(*                   McpServerConfig::load_config                          *)
(*   - persona.rs    PermissionSubject, ToolPermission, ToolPermissions,   *)
(*                   Persona::load                                         *)
(*   - commands/tools/{trust,untrust,reset_single}.rs  session commands    *)
(*   - tools/internal_command.rs  InternalCommand::requires_acceptance     *)
(* Each subsystem has its own specification (SpecAgent, SpecPersona,       *)
(* SpecTools, SpecCmd); the variables of the other subsystems are held     *)
(* at their initial value.  SpecLoad covers the three configuration        *)
(* loaders and the agent collection they produce.                          *)
(***************************************************************************)
EXTENDS Integers, Sequences, FiniteSets, TLC

VARIABLES
    agents,            \* AgentCollection.agents : Seq(Agent)
    active_idx,        \* AgentCollection.active_idx (0-based, as in the source)
    load_output,       \* names for which load wrote a conflict warning, in order
    loaded,            \* TRUE iff the collection was built by AgentCollection::load
    local_dir,         \* workspace persona directory load scanned: <<>> or <<entries>>
    global_dir,        \* global persona directory load scanned: <<>> or <<entries>>
    local_agents,      \* what the scan of the workspace directory returned
    global_agents,     \* what the scan of the global directory returned
    publish_result,    \* result of the last AgentCollection::publish: <<>>, <<"Ok">> or <<"Err">>
    received,          \* agents the subscriber received during the last publish
    switch_result,     \* result of the last AgentCollection::switch: <<>>, <<"Ok", agent>> or <<"Err", name>>
    switch_request,    \* name the last AgentCollection::switch was asked for: <<>> or <<name>>
    perm_agent,        \* the agent the last Agent::eval_perm ran on: <<>> or <<agent>>
    perm_request,      \* candidate handed to the last Agent::eval_perm: <<>> or <<candidate>>
    perm_result,       \* PermissionEvalResult of the last Agent::eval_perm, or None
    candidate_evals,   \* how often the last eval_perm invoked candidate.eval (0 or 1)
    tool_perms,        \* persona.rs ToolPermissions table of the persona
    eval_request,      \* candidate handed to the last ToolPermissions::evaluate
    eval_result,       \* its PermissionEvalResult, or None
    tool_permissions,  \* chat ToolPermissions used by the /tools commands
    tools_output,      \* messages written by the last /tools command
    last_command,      \* the last /tools command executed, or None
    repeated,          \* TRUE iff the last /tools command repeated the one before
    internal_command,  \* the InternalCommand under inspection
    flag_order,        \* iteration order of its flags HashMap
    acceptance,        \* result of requires_acceptance: <<>> or <<bool>>
    cwd_ok,            \* whether std::env::current_dir() succeeds for load_config
    mcp_global_file,   \* ~/.aws/amazonq/mcp.json
    mcp_local_file,    \* <cwd>/.amazonq/mcp.json
    mcp_result,        \* result of load_config: <<>>, <<"Ok", map>> or <<"Err">>
    mcp_output,        \* diagnostics load_config wrote, in order
    persona_local_dir, \* workspace persona directory Persona::load scans
    persona_global_dir,\* global persona directory Persona::load scans
    personas,          \* result of Persona::load: <<>> or <<list>>
    persona_output,    \* names for which Persona::load wrote a conflict warning
    tool_uses,         \* Option<Vec<QueuedTool>> handed to a command handler
    pending_tool_index,\* Option<usize> handed to a command handler
    context_manager,   \* conversation_state.context_manager: <<>> or <<manager>>
    chat_result,       \* what the last handler returned: <<>>, <<"Ok", state>> or <<"Err", error>>
    session_output,    \* messages the last context or profile handler wrote
    session_command,   \* the last command executed: <<>> or <<kind, paths or names>>
    parse_input,       \* arguments handed to a /context parser: <<>> or <<input>>
    parse_result,      \* what the parser returned: <<>>, <<"Ok", command>> or <<"Err">>
    json_input,        \* JSON value handed to the decoder of ToolPermission: <<>> or <<json>>
    decoded,           \* what it returned: <<>>, <<"Ok", permission>> or an error
    table_input,       \* ToolPermissions table that was serialized: <<>> or <<table>>
    round_trip,        \* what decoding its serialization returned: <<>>, <<"Ok", table>> or an error
    subject_map,       \* buckets of a HashMap<PermissionSubject, ToolPermission>
    insert_log,        \* the <<subject, permission>> pairs inserted into it, in order
    lookup_key,        \* string of the last HashMap::get: <<>> or <<name>>
    lookup_result,     \* what it returned: <<>> or <<permission>>
    lookup_after,      \* how many insertions preceded the last HashMap::get
    cache,             \* CompletionCache.cache: category -> key -> BTreeSet
    cache_call,        \* the last call of the cache: <<>> or <<call>>
    cache_result,      \* the Vec<String> it returned (empty for a call that returns nothing)
    completion_request,\* the last tab completion request: <<>> or <<request>>
    completion_result, \* the suggestions it returned
    cache_at_start,    \* the cache before the threads started
    rwlock,            \* the RwLock around the cache: its writer (0 for none) and its readers
    calls,             \* the call each thread makes
    pc,                \* where each thread stands in its call
    to_insert,         \* the values an update has still to insert, per thread
    ret                \* what the call of each thread returned: <<>> or <<values>>

agentVars == <<agents, active_idx, load_output, switch_result, perm_agent, perm_request, perm_result, candidate_evals>>
collectionVars == <<loaded, local_dir, global_dir, local_agents, global_agents, switch_request, publish_result, received>>
personaVars == <<tool_perms, eval_request, eval_result>>
toolsVars == <<tool_permissions, tools_output, last_command, repeated>>
cmdVars == <<internal_command, flag_order, acceptance>>
mcpVars == <<cwd_ok, mcp_global_file, mcp_local_file, mcp_result, mcp_output>>
personaLoadVars == <<persona_local_dir, persona_global_dir, personas, persona_output>>
sessionVars == <<tool_uses, pending_tool_index, context_manager, chat_result, session_output, session_command>>
parseVars == <<parse_input, parse_result>>
codecVars == <<json_input, decoded, table_input, round_trip>>
subjectVars == <<subject_map, insert_log, lookup_key, lookup_result, lookup_after>>
cacheVars == <<cache, cache_call, cache_result>>
completionVars == <<completion_request, completion_result>>
threadVars == <<cache_at_start, rwlock, calls, pc, to_insert, ret>>
restVars == <<parseVars, codecVars, subjectVars, cacheVars, completionVars, threadVars>>
extVars == <<sessionVars, restVars>>
vars == <<agentVars, collectionVars, personaVars, toolsVars, cmdVars, mcpVars, personaLoadVars, extVars>>

None == "None"

Allow == "Allow"

Ask == "Ask"

Deny == "Deny"

\* the all-wildcard, PermissionSubject::All's canonical string
Wildcard == "*"

(***************************************************************************)
(* Bounds                                                                  *)
(***************************************************************************)
MaxAgents == 2

MaxList == 2

MaxEntries == 3

MaxArgs == 3

MaxKeys == 2

MaxInserts == 3

MaxValues == 2

MaxResults == 2

(***************************************************************************)
(* agent.rs                                                                *)
(***************************************************************************)

\* impl Default for Agent
DefaultAgent ==
    [name |-> "Default",
     description |-> "Default persona",
     tools |-> <<Wildcard>>,
     allowed_tools |-> {Wildcard}]

\* agent names found in persona files
AgentNames == {"a", "b"}

\* allowedTools values found in persona files
AllowedToolSets == {{}, {"fs_read"}, {Wildcard}, {Wildcard, "fs_read"}}

\* the agents a scope's directory can decode to; description tells the scope
\* the file was written in
ScopeAgents(scope) ==
    [name : AgentNames, description : {scope}, tools : {<<>>},
     allowed_tools : AllowedToolSets]

\* result of load_agents_from_entries for one scope: up to MaxAgents agents
ScopeLists(scope) ==
    UNION {[1..n -> ScopeAgents(scope)] : n \in 0..MaxAgents}

\* tool invocations whose permission is asked for
Candidates == [tool : {"fs_read", "fs_write", "execute_bash"}, arg : {<<"x">>}]

\* PermissionCandidate::eval(&self, agent) for a tool: the trait is declared
\* in agent.rs, its implementations are not part of the source.  Looks the
\* tool up by name among the agent's allowed tools; no entry means Ask.
CandidateEvalAgent(c, agent) ==
    IF c.tool \in agent.allowed_tools THEN Allow ELSE Ask

\* Agent::eval_perm: result and number of candidate.eval invocations
eval_perm(agent, c) ==
    IF Cardinality(agent.allowed_tools) = 1 /\ Wildcard \in agent.allowed_tools
    THEN [result |-> Allow, invoked |-> 0]
    ELSE [result |-> CandidateEvalAgent(c, agent), invoked |-> 1]

\* a retain that drops nothing
SelectSeqNames_KeepAll(s, names) == s

RECURSIVE SelectSeqNames(_, _)
\* Vec::retain of load: the elements of s whose name is not in names
SelectSeqNames(s, names) ==
    IF s = <<>> THEN <<>>
    ELSE IF Head(s).name \in names
         THEN SelectSeqNames(Tail(s), names)
         ELSE <<Head(s)>> \o SelectSeqNames(Tail(s), names)

RECURSIVE ConflictNames(_, _)
\* the names of the elements of s that are in names, in order
ConflictNames(s, names) ==
    IF s = <<>> THEN <<>>
    ELSE IF Head(s).name \in names
         THEN <<Head(s).name>> \o ConflictNames(Tail(s), names)
         ELSE ConflictNames(Tail(s), names)

\* a load that appends the global agents without looking at their names
load_Append(l, g) ==
    LET merged == l \o g
    IN [agents |-> IF merged = <<>> THEN <<DefaultAgent>> ELSE merged,
        active_idx |-> 0,
        output |-> ConflictNames(g, {l[i].name : i \in 1..Len(l)})]

\* a load that returns the merged list as it is, empty or not
load_NoFallback(l, g) ==
    LET local_names == {l[i].name : i \in 1..Len(l)}
    IN [agents |-> l \o SelectSeqNames(g, local_names),
        active_idx |-> 0,
        output |-> ConflictNames(g, local_names)]

\* AgentCollection::load, given what the two directory scans returned
load(l, g) ==
    LET local_names == {l[i].name : i \in 1..Len(l)}
        retained == SelectSeqNames(g, local_names)
        merged == l \o retained
    IN [agents |-> IF merged = <<>> THEN <<DefaultAgent>> ELSE merged,
        active_idx |-> 0,
        output |-> ConflictNames(g, local_names)]

\* a get_active that counts the agents from one
get_active_FromOne(list, idx) ==
    IF idx \in 1..Len(list) THEN <<list[idx]>> ELSE <<>>

\* AgentCollection::get_active: Option<&Agent> as a sequence of length <= 1
get_active(list, idx) ==
    IF idx + 1 \in 1..Len(list) THEN <<list[idx + 1]>> ELSE <<>>

\* index found by AgentCollection::switch: the predicate compares the agent's
\* name with itself, so the first agent is found whatever the requested name
SwitchFind(list, name) ==
    IF \E i \in 1..Len(list) : list[i].name = list[i].name
    THEN (CHOOSE i \in 1..Len(list) :
              /\ list[i].name = list[i].name
              /\ \A j \in 1..(i - 1) : ~(list[j].name = list[j].name)) - 1
    ELSE -1

\* names a switch can be asked for
SwitchNames == AgentNames \cup {"Default", "zz"}

\* the agents the persona files of the scanned directories decode to
AgentFiles ==
    {[name |-> "a", description |-> "one", tools |-> <<>>, allowed_tools |-> {}],
     [name |-> "a", description |-> "two", tools |-> <<>>, allowed_tools |-> {}],
     [name |-> "b", description |-> "one", tools |-> <<>>, allowed_tools |-> {}]}

\* a directory entry: the extension of its path and what reading it gives,
\* <<>> when tokio::fs::read fails, else <<bytes>>, the bytes being <<>> when
\* they do not decode to an Agent and <<agent>> when they do
DirEntry(extension, read) == [extension |-> extension, read |-> read]

\* the entries next_entry yields for a persona directory
DirEntries ==
    {DirEntry("txt", <<<<a>>>>) : a \in {x \in AgentFiles : x.name = "b"}}
    \cup {DirEntry("json", <<>>), DirEntry("json", <<<<>>>>)}
    \cup {DirEntry("json", <<<<a>>>>) : a \in AgentFiles}

\* the number of entries of a directory
DirSize(dir) == IF dir = <<>> THEN 0 ELSE Len(dir[1])

\* a persona directory: <<>> when read_dir (or, for the workspace scope,
\* current_dir) fails, else <<entries>> with up to n entries in the order
\* next_entry yields them
Dirs(n) ==
    {<<>>} \cup {<<e>> : e \in UNION {[1..k -> DirEntries] : k \in 0..n}}

\* a scan that gives up at the first file it cannot load
RECURSIVE load_agents_from_entries_Abort(_)
load_agents_from_entries_Abort(files) ==
    IF files = <<>> THEN <<>>
    ELSE LET file == Head(files)
         IN IF file.extension = "json"
            THEN IF file.read = <<>> \/ file.read[1] = <<>>
                 THEN <<>>
                 ELSE <<file.read[1][1]>> \o load_agents_from_entries_Abort(Tail(files))
            ELSE load_agents_from_entries_Abort(Tail(files))

RECURSIVE load_agents_from_entries(_)
\* load_agents_from_entries: files is what next_entry yields until it
\* returns Ok(None) or an error, either of which ends the loop
load_agents_from_entries(files) ==
    IF files = <<>> THEN <<>>
    ELSE LET file == Head(files)
             rest == load_agents_from_entries(Tail(files))
         IN IF file.extension = "json"
            THEN IF file.read = <<>>
                 THEN rest
                 ELSE IF file.read[1] = <<>>
                      THEN rest
                      ELSE <<file.read[1][1]>> \o rest
            ELSE rest

\* the 'local and 'global blocks of load: an unreadable directory gives no
\* agent
ScopeScan(dir) ==
    IF dir = <<>> THEN <<>> ELSE load_agents_from_entries(dir[1])

\* a directory holding one decodable persona file per agent of list
FilesOf(list) ==
    <<[i \in 1..Len(list) |-> DirEntry("json", <<<<list[i]>>>>)]>>

\* a publish that reports success whether or not an agent is active
publish_AlwaysOk(list, idx) ==
    [result |-> "Ok", delivered |-> get_active(list, idx)]

\* AgentCollection::publish: its result and the agents handed to
\* subscriber.receive
publish(list, idx) ==
    LET agent == get_active(list, idx)
    IN IF agent # <<>>
       THEN [result |-> "Ok", delivered |-> <<agent[1]>>]
       ELSE [result |-> "Err", delivered |-> <<>>]

InitAgentVars ==
    \E l \in ScopeLists("local"), g \in ScopeLists("global") :
        LET c == load(l, g)
        IN /\ agents = c.agents
           /\ active_idx = c.active_idx
           /\ load_output = c.output
           /\ loaded = TRUE
           /\ local_dir = FilesOf(l)
           /\ global_dir = FilesOf(g)
           /\ local_agents = l
           /\ global_agents = g
           /\ switch_result = <<>>
           /\ switch_request = <<>>
           /\ publish_result = <<>>
           /\ received = <<>>
           /\ perm_agent = <<>>
           /\ perm_request = <<>>
           /\ perm_result = None
           /\ candidate_evals = 0

\* the collection AgentCollection::load returns for two persona directories
\* of up to MaxEntries entries together, or the collection #[derive(Default)]
\* constructs
InitCollectionVars ==
    /\ \/ \E ld \in Dirs(MaxEntries) : \E gd \in Dirs(MaxEntries - DirSize(ld)) :
             LET l == ScopeScan(ld)
                 g == ScopeScan(gd)
                 c == load(l, g)
             IN /\ agents = c.agents
                /\ active_idx = c.active_idx
                /\ load_output = c.output
                /\ loaded = TRUE
                /\ local_dir = ld
                /\ global_dir = gd
                /\ local_agents = l
                /\ global_agents = g
       \/ /\ agents = <<>>
          /\ active_idx = 0
          /\ load_output = <<>>
          /\ loaded = FALSE
          /\ local_dir = <<>>
          /\ global_dir = <<>>
          /\ local_agents = <<>>
          /\ global_agents = <<>>
    /\ switch_result = <<>>
    /\ switch_request = <<>>
    /\ publish_result = <<>>
    /\ received = <<>>
    /\ perm_agent = <<>>
    /\ perm_request = <<>>
    /\ perm_result = None
    /\ candidate_evals = 0

\* a tool asks the active agent for permission
EvalPerm ==
    /\ get_active(agents, active_idx) # <<>>
    /\ \E c \in Candidates :
          LET agent == get_active(agents, active_idx)[1]
              r == eval_perm(agent, c)
          IN /\ perm_agent' = <<agent>>
             /\ perm_request' = <<c>>
             /\ perm_result' = r.result
             /\ candidate_evals' = r.invoked
    /\ UNCHANGED <<agents, active_idx, load_output, switch_result>>
    /\ UNCHANGED <<collectionVars, personaVars, toolsVars, cmdVars, mcpVars, personaLoadVars>>
    /\ UNCHANGED extVars

\* AgentCollection::switch(name)
Switch ==
    /\ \E name \in SwitchNames :
          LET i == SwitchFind(agents, name)
          IN IF i >= 0
             THEN /\ active_idx' = i
                  /\ switch_result' = <<"Ok", agents[i + 1].name>>
                  /\ switch_request' = <<name>>
             ELSE /\ active_idx' = active_idx
                  /\ switch_result' = <<"Err", name>>
                  /\ switch_request' = <<name>>
    /\ UNCHANGED <<agents, load_output, perm_agent, perm_request, perm_result, candidate_evals>>
    /\ UNCHANGED <<loaded, local_dir, global_dir, local_agents, global_agents, publish_result, received>>
    /\ UNCHANGED <<personaVars, toolsVars, cmdVars, mcpVars, personaLoadVars>>
    /\ UNCHANGED extVars

\* AgentCollection::publish(subscriber)
Publish ==
    /\ LET r == publish(agents, active_idx)
       IN /\ publish_result' = <<r.result>>
          /\ received' = r.delivered
    /\ UNCHANGED agentVars
    /\ UNCHANGED <<loaded, local_dir, global_dir, local_agents, global_agents, switch_request>>
    /\ UNCHANGED <<personaVars, toolsVars, cmdVars, mcpVars, personaLoadVars>>
    /\ UNCHANGED extVars

(***************************************************************************)
(* persona.rs                                                              *)
(***************************************************************************)

\* ToolPermission::AlwaysAllow
PermAlwaysAllow == [kind |-> "AlwaysAllow", always_allow |-> <<>>, deny |-> <<>>]

\* ToolPermission::Deny
PermDeny == [kind |-> "Deny", always_allow |-> <<>>, deny |-> <<>>]

\* ToolPermission::DetailedList { always_allow, deny }
DetailedList(aa, dn) == [kind |-> "DetailedList", always_allow |-> aa, deny |-> dn]

\* impl Default for ToolPermissions
DefaultToolPermissions ==
    [built_in |-> ("fs_read" :> PermAlwaysAllow) @@ ("report_issue" :> PermAlwaysAllow),
     custom |-> <<>>]

\* the custom section of tests::INPUT
InputCustom ==
    ("git" :> (("git_status" :> PermAlwaysAllow) @@ ("git_commit" :> PermDeny)))
    @@ ("fetch" :> (Wildcard :> PermAlwaysAllow))

\* entries of always_allow / deny lists, as word sequences
ListEntries == {<<"npm">>, <<"curl">>}

\* arguments / commands a tool is run with, as word sequences
Arguments == {<<"npm", "install">>, <<"curl", "x">>, <<"rm">>}

\* always_allow / deny lists of at most MaxList entries
Lists == UNION {[1..n -> ListEntries] : n \in 0..MaxList}

SimplePerms == {PermAlwaysAllow, PermDeny}

Perms == SimplePerms \cup {DetailedList(aa, dn) : aa \in Lists, dn \in Lists}

\* entries used in custom sections and for fs_read
CustomPerms == SimplePerms \cup {DetailedList(<<<<"npm">>>>, <<<<"curl">>>>)}

BuiltInNames == {"fs_read", "execute_bash"}

\* builtIn sections: execute_bash carries any entry, fs_read one of CustomPerms
\* or the detailed list with both lists empty
BuiltInTables ==
    {f \in UNION {[S -> Perms] : S \in SUBSET BuiltInNames} :
        "fs_read" \in DOMAIN f => f["fs_read"] \in CustomPerms \cup {DetailedList(<<>>, <<>>)}}

ServerSubjects == {"git", Wildcard}

ToolSubjects == {"git_status", Wildcard}

\* per-server maps and custom sections
ServerMaps == UNION {[S -> CustomPerms] : S \in SUBSET ToolSubjects}

CustomTables == UNION {[S -> ServerMaps] : S \in SUBSET ServerSubjects}

\* the ToolPermissions tables a persona file can decode to
Tables ==
    {[built_in |-> b, custom |-> c] : b \in BuiltInTables, c \in {<<>>, InputCustom}}
    \cup {[built_in |-> DefaultToolPermissions.built_in, custom |-> c] : c \in CustomTables}

\* candidates of built-in tools (server = None) and of MCP tools server/tool
PersonaCandidates ==
    [server : {None}, tool : {"fs_read", "fs_write", "execute_bash"}, arg : Arguments]
    \cup [server : {"git", "fetch"}, tool : {"git_status", "git_commit"}, arg : Arguments]

\* str::starts_with on sequences
IsPrefix(p, s) == Len(p) <= Len(s) /\ SubSeq(s, 1, Len(p)) = p

\* tool-owned matching of an argument against one list entry (command prefix)
Matches(entry, arg) == IsPrefix(entry, arg)

AnyMatch(list, arg) == \E i \in 1..Len(list) : Matches(list[i], arg)

\* Get with derived Hash on PermissionSubject: a lookup by &str finds nothing
Get_DerivedHash(m, name) == <<>>

\* Get where PermissionSubject::All does not borrow as "*"
Get_AllNotStar(m, name) ==
    IF name # Wildcard /\ name \in DOMAIN m THEN <<m[name]>> ELSE <<>>

\* HashMap::get by canonical string: <<>> or <<value>>
Get(m, name) == IF name \in DOMAIN m THEN <<m[name]>> ELSE <<>>

\* lookup within a custom scope: the exact name, else the wildcard subject
Lookup(m, name) == IF Get(m, name) # <<>> THEN Get(m, name) ELSE Get(m, Wildcard)

\* table entry for a candidate: built_in[tool], or custom[server][tool]
Resolve(perms, c) ==
    IF c.server = None
    THEN Get(perms.built_in, c.tool)
    ELSE LET sm == Lookup(perms.custom, c.server)
         IN IF sm = <<>> THEN <<>> ELSE Lookup(sm[1], c.tool)

\* Decide with always_allow consulted before deny
Decide_AllowFirst(entry, arg) ==
    IF entry = <<>> THEN Ask
    ELSE IF entry[1].kind = "AlwaysAllow" THEN Allow
    ELSE IF entry[1].kind = "Deny" THEN Deny
    ELSE IF AnyMatch(entry[1].always_allow, arg) THEN Allow
    ELSE IF AnyMatch(entry[1].deny, arg) THEN Deny
    ELSE Ask

\* decision for a resolved entry and an argument
Decide(entry, arg) ==
    IF entry = <<>> THEN Ask
    ELSE IF entry[1].kind = "AlwaysAllow" THEN Allow
    ELSE IF entry[1].kind = "Deny" THEN Deny
    ELSE IF AnyMatch(entry[1].deny, arg) THEN Deny
    ELSE IF AnyMatch(entry[1].always_allow, arg) THEN Allow
    ELSE Ask

\* PermissionCandidate::eval(&self, tool_permissions)
CandidateEval(c, perms) == Decide(Resolve(perms, c), c.arg)

\* evaluate that hands the candidate the default table instead of self
evaluate_Default(perms, c) == CandidateEval(c, DefaultToolPermissions)

\* ToolPermissions::evaluate
evaluate(perms, c) == CandidateEval(c, perms)

InitPersonaVars ==
    /\ tool_perms \in Tables
    /\ eval_request = <<>>
    /\ eval_result = None

\* a tool asks the persona's table for permission
Evaluate ==
    /\ \E c \in PersonaCandidates :
          /\ eval_request' = <<c>>
          /\ eval_result' = evaluate(tool_perms, c)
    /\ UNCHANGED tool_perms
    /\ UNCHANGED <<agentVars, collectionVars, toolsVars, cmdVars, mcpVars, personaLoadVars>>
    /\ UNCHANGED extVars

(***************************************************************************)
(* commands/tools/trust.rs, untrust.rs, reset_single.rs                    *)
(***************************************************************************)

\* names of the tools in ctx.conversation_state.tools
SessionTools == {"fs_read", "fs_write", "execute_bash"}

\* tool names a /tools command can carry
CommandToolNames == SessionTools \cup {"no_such_tool"}

\* the tool_exists test of the trust and untrust handlers
tool_exists(tool_name) == \E spec_name \in SessionTools : spec_name = tool_name

\* chat ToolPermissions: a table tool name -> trusted; its methods are called
\* by the handlers, their bodies are not part of the source
trust_tool(p, tool_name) ==
    [n \in DOMAIN p \cup {tool_name} |-> IF n = tool_name THEN TRUE ELSE p[n]]

untrust_tool(p, tool_name) ==
    [n \in DOMAIN p \cup {tool_name} |-> IF n = tool_name THEN FALSE ELSE p[n]]

reset_tool(p, tool_name) == [n \in DOMAIN p \ {tool_name} |-> p[n]]

has(p, tool_name) == tool_name \in DOMAIN p

is_trusted(p, tool_name) == tool_name \in DOMAIN p /\ p[tool_name]

\* a message queued on ctx.output
Msg(kind, tool_name) == [kind |-> kind, tool |-> tool_name]

\* the orders in which a HashSet<String> can be iterated
Orders(names) ==
    {o \in [1..Cardinality(names) -> names] : \A i, j \in DOMAIN o : i # j => o[i] # o[j]}

RECURSIVE TrustLoop_Untrusts(_, _, _)
RECURSIVE TrustLoop_Break(_, _, _)
\* the trust loop calling untrust_tool
TrustLoop_Untrusts(p, out, order) ==
    IF order = <<>> THEN [perms |-> p, out |-> out]
    ELSE IF ~tool_exists(Head(order))
         THEN TrustLoop_Untrusts(p, Append(out, Msg("Unknown tool", Head(order))), Tail(order))
         ELSE TrustLoop_Untrusts(untrust_tool(p, Head(order)),
                                 Append(out, Msg("is now trusted", Head(order))), Tail(order))

\* the trust loop leaving the loop at an unknown tool (break for continue)
TrustLoop_Break(p, out, order) ==
    IF order = <<>> THEN [perms |-> p, out |-> out]
    ELSE IF ~tool_exists(Head(order))
         THEN [perms |-> p, out |-> Append(out, Msg("Unknown tool", Head(order)))]
         ELSE TrustLoop_Break(trust_tool(p, Head(order)),
                              Append(out, Msg("is now trusted", Head(order))), Tail(order))

RECURSIVE TrustLoop(_, _, _)
\* the for loop of TrustToolsCommand::execute_command over tool_names
TrustLoop(p, out, order) ==
    IF order = <<>> THEN [perms |-> p, out |-> out]
    ELSE IF ~tool_exists(Head(order))
         THEN TrustLoop(p, Append(out, Msg("Unknown tool", Head(order))), Tail(order))
         ELSE TrustLoop(trust_tool(p, Head(order)),
                        Append(out, Msg("is now trusted", Head(order))), Tail(order))

RECURSIVE UntrustLoop_Revert(_, _, _)
\* the untrust loop dropping an existing entry and inserting a missing one
UntrustLoop_Revert(p, out, order) ==
    IF order = <<>> THEN [perms |-> p, out |-> out]
    ELSE IF ~tool_exists(Head(order))
         THEN UntrustLoop_Revert(p, Append(out, Msg("Unknown tool", Head(order))), Tail(order))
         ELSE UntrustLoop_Revert(IF has(p, Head(order))
                                 THEN reset_tool(p, Head(order))
                                 ELSE untrust_tool(p, Head(order)),
                                 Append(out, Msg("per-request confirmation", Head(order))),
                                 Tail(order))

RECURSIVE UntrustLoop(_, _, _)
\* the for loop of UntrustToolsCommand::execute_command over tool_names
UntrustLoop(p, out, order) ==
    IF order = <<>> THEN [perms |-> p, out |-> out]
    ELSE IF ~tool_exists(Head(order))
         THEN UntrustLoop(p, Append(out, Msg("Unknown tool", Head(order))), Tail(order))
         ELSE UntrustLoop(untrust_tool(p, Head(order)),
                          Append(out, Msg("per-request confirmation", Head(order))), Tail(order))

\* the body of ResetSingleToolCommand::execute_command
ResetSingle(p, tool_name) ==
    IF ~has(p, tool_name)
    THEN [perms |-> p, out |-> <<Msg("Unknown tool", tool_name)>>]
    ELSE [perms |-> reset_tool(p, tool_name), out |-> <<Msg("Reset tool", tool_name)>>]

\* Command::Tools { subcommand: Trust / Untrust / ResetSingle }
ToolsCommand(kind, names) == [kind |-> kind, tool_names |-> names]

\* ChatState::PromptUser { tool_uses, pending_tool_index, skip_printing_tools: true }
PromptUser(uses, index) ==
    [tool_uses |-> uses, pending_tool_index |-> index, skip_printing_tools |-> TRUE]

InitToolsVars ==
    /\ tool_permissions \in {<<>>, "fs_read" :> TRUE}
    /\ tools_output = <<>>
    /\ last_command = <<>>
    /\ repeated = FALSE

\* /tools trust <tool_name> [tool_name...]
TrustTools ==
    /\ \E names \in SUBSET CommandToolNames :
          \E order \in Orders(names) :
             LET r == TrustLoop(tool_permissions, <<>>, order)
                 cmd == ToolsCommand("trust", names)
             IN /\ tool_permissions' = r.perms
                /\ tools_output' = Append(r.out, Msg("newline", ""))
                /\ last_command' = <<cmd>>
                /\ repeated' = (last_command = <<cmd>>)
    /\ UNCHANGED <<agentVars, collectionVars, personaVars, cmdVars, mcpVars, personaLoadVars>>
    /\ session_command' = <<"tools trust", <<>>>>
    /\ chat_result' = <<"Ok", PromptUser(tool_uses, pending_tool_index)>>
    /\ UNCHANGED <<tool_uses, pending_tool_index, context_manager, session_output, restVars>>

\* /tools untrust <tool_name> [tool_name...]
UntrustTools ==
    /\ \E names \in SUBSET CommandToolNames :
          \E order \in Orders(names) :
             LET r == UntrustLoop(tool_permissions, <<>>, order)
                 cmd == ToolsCommand("untrust", names)
             IN /\ tool_permissions' = r.perms
                /\ tools_output' = Append(r.out, Msg("newline", ""))
                /\ last_command' = <<cmd>>
                /\ repeated' = (last_command = <<cmd>>)
    /\ UNCHANGED <<agentVars, collectionVars, personaVars, cmdVars, mcpVars, personaLoadVars>>
    /\ session_command' = <<"tools untrust", <<>>>>
    /\ chat_result' = <<"Ok", PromptUser(tool_uses, pending_tool_index)>>
    /\ UNCHANGED <<tool_uses, pending_tool_index, context_manager, session_output, restVars>>

\* /tools reset <tool_name>
ResetSingleTool ==
    /\ \E tool_name \in CommandToolNames :
          LET r == ResetSingle(tool_permissions, tool_name)
              cmd == ToolsCommand("reset", {tool_name})
          IN /\ tool_permissions' = r.perms
             /\ tools_output' = r.out
             /\ last_command' = <<cmd>>
             /\ repeated' = (last_command = <<cmd>>)
    /\ UNCHANGED <<agentVars, collectionVars, personaVars, cmdVars, mcpVars, personaLoadVars>>
    /\ session_command' = <<"tools reset", <<>>>>
    /\ chat_result' = <<"Ok", PromptUser(tool_uses, pending_tool_index)>>
    /\ UNCHANGED <<tool_uses, pending_tool_index, context_manager, session_output, restVars>>

(***************************************************************************)
(* tools/internal_command.rs                                               *)
(***************************************************************************)

\* the characters of the strings that occur in internal commands
chars ==
    ("quit" :> <<"q", "u", "i", "t">>)
    @@ ("clear" :> <<"c", "l", "e", "a", "r">>)
    @@ ("help" :> <<"h", "e", "l", "p">>)
    @@ ("helper" :> <<"h", "e", "l", "p", "e", "r">>)
    @@ ("context" :> <<"c", "o", "n", "t", "e", "x", "t">>)
    @@ ("profile" :> <<"p", "r", "o", "f", "i", "l", "e">>)
    @@ ("tools" :> <<"t", "o", "o", "l", "s">>)
    @@ ("issue" :> <<"i", "s", "s", "u", "e">>)
    @@ ("compact" :> <<"c", "o", "m", "p", "a", "c", "t">>)
    @@ ("editor" :> <<"e", "d", "i", "t", "o", "r">>)
    @@ ("usage" :> <<"u", "s", "a", "g", "e">>)
    @@ ("prompts" :> <<"p", "r", "o", "m", "p", "t", "s">>)
    @@ ("load" :> <<"l", "o", "a", "d">>)
    @@ ("save" :> <<"s", "a", "v", "e">>)
    @@ ("mcp" :> <<"m", "c", "p">>)
    @@ ("model" :> <<"m", "o", "d", "e", "l">>)
    @@ ("add" :> <<"a", "d", "d">>)
    @@ ("rm" :> <<"r", "m">>)
    @@ ("show" :> <<"s", "h", "o", "w">>)
    @@ ("showall" :> <<"s", "h", "o", "w", "a", "l", "l">>)
    @@ ("hooks" :> <<"h", "o", "o", "k", "s">>)
    @@ ("list" :> <<"l", "i", "s", "t">>)
    @@ ("create" :> <<"c", "r", "e", "a", "t", "e">>)
    @@ ("delete" :> <<"d", "e", "l", "e", "t", "e">>)
    @@ ("set" :> <<"s", "e", "t">>)
    @@ ("rename" :> <<"r", "e", "n", "a", "m", "e">>)
    @@ ("schema" :> <<"s", "c", "h", "e", "m", "a">>)
    @@ ("trust" :> <<"t", "r", "u", "s", "t">>)
    @@ ("untrust" :> <<"u", "n", "t", "r", "u", "s", "t">>)
    @@ ("trustall" :> <<"t", "r", "u", "s", "t", "a", "l", "l">>)
    @@ ("reset" :> <<"r", "e", "s", "e", "t">>)
    @@ ("get" :> <<"g", "e", "t">>)
    @@ ("file.txt" :> <<"f", "i", "l", "e", ".", "t", "x", "t">>)
    @@ ("fs_write" :> <<"f", "s", "_", "w", "r", "i", "t", "e">>)
    @@ ("dev" :> <<"d", "e", "v">>)
    @@ ("global" :> <<"g", "l", "o", "b", "a", "l">>)
    @@ ("force" :> <<"f", "o", "r", "c", "e">>)
    @@ ("name" :> <<"n", "a", "m", "e">>)
    @@ ("/help" :> <<"/", "h", "e", "l", "p">>)
    @@ ("/usage" :> <<"/", "u", "s", "a", "g", "e">>)
    @@ ("/context show" :> <<"/", "c", "o", "n", "t", "e", "x", "t", " ", "s", "h", "o", "w">>)
    @@ ("/profile list" :> <<"/", "p", "r", "o", "f", "i", "l", "e", " ", "l", "i", "s", "t">>)
    @@ ("/tools schema" :> <<"/", "t", "o", "o", "l", "s", " ", "s", "c", "h", "e", "m", "a">>)
    @@ ("/prompts list" :> <<"/", "p", "r", "o", "m", "p", "t", "s", " ", "l", "i", "s", "t">>)
    @@ ("/model" :> <<"/", "m", "o", "d", "e", "l">>)

\* the command names listed by get_tool_spec, and one that is not
CommandNames ==
    {"quit", "clear", "help", "context", "profile", "tools", "issue", "compact",
     "editor", "usage", "prompts", "load", "save", "mcp", "model", "helper"}

Subcommands ==
    {"add", "rm", "clear", "show", "showall", "hooks", "list", "create", "delete",
     "set", "rename", "help", "schema", "trust", "untrust", "trustall", "reset", "get"}

ArgLists == {<<>>, <<"file.txt">>, <<"show">>, <<"fs_write", "dev">>}

\* flags : HashMap<String, String>
FlagMaps ==
    {<<>>, "global" :> "", "name" :> "dev", ("global" :> "") @@ ("force" :> "")}

\* Option<T> as a sequence of length <= 1
Option(S) == {<<>>} \cup {<<x>> : x \in S}

InternalCommands ==
    [command : CommandNames, subcommand : Option(Subcommands),
     args : Option(ArgLists), flags : Option(FlagMaps)]

\* the safe_commands array of requires_acceptance
safe_commands ==
    <<"/help", "/usage", "/context show", "/profile list", "/tools schema",
      "/prompts list", "/model">>

RECURSIVE Join(_, _)
\* [String]::join(sep) on character sequences
Join(parts, sep) ==
    IF parts = <<>> THEN <<>>
    ELSE IF Len(parts) = 1 THEN parts[1]
    ELSE parts[1] \o sep \o Join(Tail(parts), sep)

\* one flag of build_command_string: "--key" or "--key value"
FlagPart(key, value) ==
    IF value = "" THEN <<"-", "-">> \o chars[key]
    ELSE <<"-", "-">> \o chars[key] \o <<" ">> \o chars[value]

\* InternalCommand::build_command_string; order is the iteration order of flags
build_command_string(cmd, order) ==
    LET p1 == <<<<"/">> \o chars[cmd.command]>>
        p2 == IF cmd.subcommand # <<>> THEN <<chars[cmd.subcommand[1]]>> ELSE <<>>
        p3 == IF cmd.args # <<>>
              THEN [i \in 1..Len(cmd.args[1]) |-> chars[cmd.args[1][i]]]
              ELSE <<>>
        p4 == IF cmd.flags # <<>>
              THEN [i \in 1..Len(order) |-> FlagPart(order[i], cmd.flags[1][order[i]])]
              ELSE <<>>
    IN Join(p1 \o p2 \o p3 \o p4, <<" ">>)

\* InternalCommand::requires_acceptance
requires_acceptance(cmd, order) ==
    LET command_string == build_command_string(cmd, order)
        is_safe == \E i \in 1..Len(safe_commands) :
                       IsPrefix(chars[safe_commands[i]], command_string)
    IN ~is_safe

\* the keys of an Option<HashMap>
FlagKeys(cmd) == IF cmd.flags = <<>> THEN {} ELSE DOMAIN cmd.flags[1]

InitCmdVars ==
    /\ internal_command \in InternalCommands
    /\ flag_order \in Orders(FlagKeys(internal_command))
    /\ acceptance = <<>>

\* the tool layer asks whether the suggested command needs acceptance
RequiresAcceptance ==
    /\ acceptance' = <<requires_acceptance(internal_command, flag_order)>>
    /\ UNCHANGED <<internal_command, flag_order>>
    /\ UNCHANGED <<agentVars, collectionVars, personaVars, toolsVars, mcpVars, personaLoadVars>>
    /\ UNCHANGED extVars

(***************************************************************************)
(* agent.rs: McpServerConfig                                               *)
(***************************************************************************)

\* server names found in mcp.json files
McpServerNames == {"git", "fetch"}

\* CustomToolConfig values found in mcp.json files
McpConfigs == {"cmd1", "cmd2"}

\* McpServerConfig.mcp_servers: a map from server name to CustomToolConfig
McpMaps == UNION {[D -> McpConfigs] : D \in SUBSET McpServerNames}

\* McpServerConfig::default(): no server
DefaultMcpServerConfig == <<>>

\* an mcp.json file: whether it is there and can be read, and what its bytes
\* decode to, <<>> when serde_json rejects them and <<map>> otherwise
McpFile(status, bytes) == [status |-> status, bytes |-> bytes]

McpFiles ==
    {McpFile("missing", <<>>), McpFile("unreadable", <<>>), McpFile("present", <<>>)}
    \cup {McpFile("present", <<m>>) : m \in McpMaps}

\* tokio::fs::read(path).await.ok(): Option<Vec<u8>> as a sequence of
\* length <= 1
ReadOk(file) == IF file.status = "present" THEN <<file.bytes>> ELSE <<>>

\* a diagnostic queued on the output of load_config
Diag(kind, subject) == [kind |-> kind, subject |-> subject]

\* McpServerConfig::from_slice: the configuration and what it wrote.  The
\* output is taken to accept every write.
from_slice(slice, location) ==
    IF slice # <<>>
    THEN [conf |-> slice[1], output |-> <<>>]
    ELSE [conf |-> DefaultMcpServerConfig,
          output |-> <<Diag("decode_error", location)>>]

\* a merge that keeps the entry the map already has
RECURSIVE InsertAll_KeepGlobal(_, _, _, _)
InsertAll_KeepGlobal(map, local_conf, order, out) ==
    IF order = <<>> THEN [map |-> map, output |-> out]
    ELSE LET server_name == Head(order)
         IN IF server_name \in DOMAIN map
            THEN InsertAll_KeepGlobal(map, local_conf, Tail(order),
                                      Append(out, Diag("conflict", server_name)))
            ELSE InsertAll_KeepGlobal((server_name :> local_conf[server_name]) @@ map,
                                      local_conf, Tail(order), out)

RECURSIVE InsertAll(_, _, _, _)
\* the loop of load_config over local_conf.mcp_servers, in the order the
\* HashMap is iterated: insert replaces the entry and tells whether there
\* was one
InsertAll(map, local_conf, order, out) ==
    IF order = <<>> THEN [map |-> map, output |-> out]
    ELSE LET server_name == Head(order)
             was_some == server_name \in DOMAIN map
             inserted == (server_name :> local_conf[server_name]) @@ map
         IN InsertAll(inserted, local_conf, Tail(order),
                      IF was_some
                      THEN Append(out, Diag("conflict", server_name))
                      ELSE out)

\* the keys of the configuration the workspace file decodes to
LocalKeys(file) ==
    IF file.status = "present" /\ file.bytes # <<>> THEN DOMAIN file.bytes[1] ELSE {}

\* McpServerConfig::load_config
load_config(cwd, global_file, local_file, order) ==
    IF ~cwd
    THEN [result |-> <<"Err">>, output |-> <<>>]
    ELSE LET global_buf == ReadOk(global_file)
             local_buf == ReadOk(local_file)
         IN IF global_buf # <<>> /\ local_buf # <<>>
            THEN LET global_conf == from_slice(global_buf[1], "global")
                     local_conf == from_slice(local_buf[1], "local")
                     m == InsertAll(global_conf.conf, local_conf.conf, order,
                                    global_conf.output \o local_conf.output)
                 IN [result |-> <<"Ok", m.map>>, output |-> m.output]
            ELSE IF local_buf # <<>>
            THEN LET local_conf == from_slice(local_buf[1], "local")
                 IN [result |-> <<"Ok", local_conf.conf>>, output |-> local_conf.output]
            ELSE IF global_buf # <<>>
            THEN LET global_conf == from_slice(global_buf[1], "global")
                 IN [result |-> <<"Ok", global_conf.conf>>, output |-> global_conf.output]
            ELSE [result |-> <<"Ok", DefaultMcpServerConfig>>, output |-> <<>>]

\* the workspace file lies under the current directory: there is none to
\* read when the current directory cannot be determined
InitMcpVars ==
    /\ cwd_ok \in BOOLEAN
    /\ mcp_global_file \in McpFiles
    /\ mcp_local_file \in (IF cwd_ok THEN McpFiles ELSE {McpFile("missing", <<>>)})
    /\ mcp_result = <<>>
    /\ mcp_output = <<>>

\* the chat session loads the MCP server configuration
LoadConfig ==
    /\ \E order \in Orders(LocalKeys(mcp_local_file)) :
          LET r == load_config(cwd_ok, mcp_global_file, mcp_local_file, order)
          IN /\ mcp_result' = r.result
             /\ mcp_output' = r.output
    /\ UNCHANGED <<cwd_ok, mcp_global_file, mcp_local_file>>
    /\ UNCHANGED <<agentVars, collectionVars, personaVars, toolsVars, cmdVars, personaLoadVars>>
    /\ UNCHANGED extVars

(***************************************************************************)
(* persona.rs: Persona::load                                               *)
(***************************************************************************)

\* the characters of the file names found in persona directories
file_chars ==
    ("a.json" :> <<"a", ".", "j", "s", "o", "n">>)
    @@ ("b.json" :> <<"b", ".", "j", "s", "o", "n">>)
    @@ ("notes.txt" :> <<"n", "o", "t", "e", "s", ".", "t", "x", "t">>)

PersonaFileNames == DOMAIN file_chars

\* Path::extension: what follows the last dot of the file name, None when
\* there is no dot or the only dot starts the name
extension(file_name) ==
    LET cs == file_chars[file_name]
        dots == {i \in 1..Len(cs) : cs[i] = "."}
    IN IF dots = {} THEN <<>>
       ELSE LET last == CHOOSE i \in dots : \A j \in dots : j <= i
            IN IF last = 1 THEN <<>> ELSE <<SubSeq(cs, last + 1, Len(cs))>>

\* a persona file: its name and what reading it gives, <<>> when the read
\* fails, else <<bytes>>, the bytes being <<>> when they do not decode to a
\* PersonaConfig and <<config>> when they do
PersonaFile(file_name, read) == [file_name |-> file_name, read |-> read]

PersonaFiles ==
    {PersonaFile(n, r) : n \in {"a.json", "b.json"},
                        r \in {<<>>, <<<<>>>>, <<<<"config">>>>}}
    \cup {PersonaFile("notes.txt", <<<<"config">>>>)}

\* a persona directory: <<>> when it cannot be listed, else <<entries>>, up
\* to n files with different names
PersonaDirs(n) ==
    {<<>>} \cup
    {<<e>> : e \in {f \in UNION {[1..k -> PersonaFiles] : k \in 0..n} :
                       \A i, j \in DOMAIN f : i # j => f[i].file_name # f[j].file_name}}

\* Persona::Local { name, config } / Persona::Global { name, config }
PersonaOf(is_global, file) ==
    [scope |-> IF is_global THEN "Global" ELSE "Local",
     name |-> file.file_name,
     config |-> file.read[1][1]]

RECURSIVE load_personas_from_entries(_, _)
\* load_personas_from_entries
load_personas_from_entries(files, is_global) ==
    IF files = <<>> THEN <<>>
    ELSE LET file == Head(files)
             rest == load_personas_from_entries(Tail(files), is_global)
         IN IF extension(file.file_name) = <<<<"j", "s", "o", "n">>>>
            THEN IF file.read = <<>>
                 THEN rest
                 ELSE IF file.read[1] = <<>>
                      THEN rest
                      ELSE <<PersonaOf(is_global, file)>> \o rest
            ELSE rest

\* the 'local and 'global blocks of Persona::load
PersonaScan(dir, is_global) ==
    IF dir = <<>> THEN <<>> ELSE load_personas_from_entries(dir[1], is_global)

RECURSIVE PersonaRetain(_, _)
\* global_personas.retain of Persona::load: the personas kept and the names
\* a conflict warning was written for; the warning is queued before the
\* name is looked up among the local names
PersonaRetain(global_personas, local_names) ==
    IF global_personas = <<>> THEN [kept |-> <<>>, output |-> <<>>]
    ELSE LET p == Head(global_personas)
             rest == PersonaRetain(Tail(global_personas), local_names)
         IN IF p.scope = "Global"
            THEN [kept |-> IF p.name \notin local_names
                           THEN <<p>> \o rest.kept
                           ELSE rest.kept,
                  output |-> <<p.name>> \o rest.output]
            ELSE rest

\* Persona::load
persona_load(ldir, gdir) ==
    LET local_personas == PersonaScan(ldir, FALSE)
        global_personas == PersonaScan(gdir, TRUE)
        local_names == {local_personas[i].name :
                            i \in {j \in 1..Len(local_personas) :
                                       local_personas[j].scope = "Local"}}
        r == PersonaRetain(global_personas, local_names)
    IN [personas |-> local_personas \o r.kept, output |-> r.output]

InitPersonaLoadVars ==
    /\ persona_local_dir \in PersonaDirs(MaxEntries)
    /\ persona_global_dir \in PersonaDirs(MaxEntries - DirSize(persona_local_dir))
    /\ personas = <<>>
    /\ persona_output = <<>>

\* the chat session loads the personas
LoadPersonas ==
    /\ LET r == persona_load(persona_local_dir, persona_global_dir)
       IN /\ personas' = <<r.personas>>
          /\ persona_output' = r.output
    /\ UNCHANGED <<persona_local_dir, persona_global_dir>>
    /\ UNCHANGED <<agentVars, collectionVars, personaVars, toolsVars, cmdVars, mcpVars>>
    /\ UNCHANGED extVars

(***************************************************************************)
(* commands/context/{add,remove}.rs, commands/profile/{set,delete}.rs      *)
(***************************************************************************)

\* paths and profile names given to session commands
PathNames == {"p1", "p2"}

\* Command::Context { subcommand: ContextSubcommand::Add { global, force, paths } }
ContextAdd(global, force, paths) ==
    [kind |-> "context add", global |-> global, force |-> force, paths |-> paths, name |-> ""]

\* Command::Context { subcommand: ContextSubcommand::Remove { global, paths } }
ContextRemove(global, paths) ==
    [kind |-> "context rm", global |-> global, force |-> FALSE, paths |-> paths, name |-> ""]

\* Command::Profile { subcommand: ProfileSubcommand::Set { name } }
ProfileSet(name) ==
    [kind |-> "profile set", global |-> FALSE, force |-> FALSE, paths |-> <<>>, name |-> name]

\* Command::Profile { subcommand: ProfileSubcommand::Delete { name } }
ProfileDelete(name) ==
    [kind |-> "profile delete", global |-> FALSE, force |-> FALSE, paths |-> <<>>, name |-> name]

\* the path lists of the commands executed
PathLists == {<<>>, <<"p1">>, <<"p1", "p2">>}

\* what a handler returns and what it wrote to ctx.output
Handled(result, output) == [result |-> result, output |-> output]

\* Err(ChatError::Custom(message))
Custom(message) == <<"Err", "Custom", message>>

\* an add handler that answers a missing path list at the prompt
add_execute_command_Prompt(command, manager, uses, index, ok) ==
    IF command.paths = <<>>
    THEN Handled(<<"Ok", PromptUser(uses, index)>>, <<"No paths specified">>)
    ELSE IF manager = <<>>
    THEN Handled(<<"Ok", PromptUser(uses, index)>>, <<"Error: Context manager not initialized">>)
    ELSE Handled(<<"Ok", PromptUser(<<>>, <<>>)>>,
                 IF ok THEN <<"Added">> ELSE <<"Error">>)

\* AddContextCommand::execute_command; ok tells whether
\* context_manager.add_paths succeeds
add_execute_command(command, manager, uses, index, ok) ==
    IF command.paths = <<>>
    THEN Handled(Custom("No paths specified"), <<>>)
    ELSE IF manager = <<>>
    THEN Handled(<<"Ok", PromptUser(uses, index)>>, <<"Error: Context manager not initialized">>)
    ELSE Handled(<<"Ok", PromptUser(uses, index)>>,
                 IF ok THEN <<"Added">> ELSE <<"Error">>)

\* RemoveContextCommand::execute_command; ok tells whether
\* context_manager.remove_paths succeeds
remove_execute_command(command, manager, uses, index, ok) ==
    IF command.paths = <<>>
    THEN Handled(Custom("No paths specified"), <<>>)
    ELSE IF manager = <<>>
    THEN Handled(<<"Ok", PromptUser(uses, index)>>, <<"Error: Context manager not initialized">>)
    ELSE Handled(<<"Ok", PromptUser(uses, index)>>,
                 IF ok THEN <<"Removed">> ELSE <<"Error">>)

\* SetProfileCommand::execute_command; ok tells whether
\* context_manager.switch_profile succeeds
set_execute_command(command, manager, uses, index, ok) ==
    IF manager # <<>>
    THEN Handled(<<"Ok", PromptUser(uses, index)>>,
                 IF ok THEN <<"Switched to profile">> ELSE <<"Error switching profile">>)
    ELSE Handled(<<"Ok", PromptUser(uses, index)>>, <<"Context manager is not available">>)

\* DeleteProfileCommand::execute_command; ok tells whether
\* context_manager.delete_profile succeeds
delete_execute_command(command, manager, uses, index, ok) ==
    IF manager # <<>>
    THEN Handled(<<"Ok", PromptUser(uses, index)>>,
                 IF ok THEN <<"Profile deleted">> ELSE <<"Error deleting profile">>)
    ELSE Handled(<<"Ok", PromptUser(uses, index)>>, <<"Context manager is not available">>)

\* the pending tool uses and the context manager of the session; what the
\* context manager holds is not looked at by the handlers
InitSessionVars ==
    /\ tool_uses \in {<<>>, <<<<"tool_use_1">>>>}
    /\ pending_tool_index \in {<<>>, <<0>>}
    /\ context_manager \in {<<>>, <<"context_manager">>}
    /\ chat_result = <<>>
    /\ session_output = <<>>
    /\ session_command = <<>>

\* /context add
ExecuteContextAdd ==
    /\ \E global \in BOOLEAN, force \in BOOLEAN, paths \in PathLists, ok \in BOOLEAN :
          LET r == add_execute_command(ContextAdd(global, force, paths), context_manager,
                                       tool_uses, pending_tool_index, ok)
          IN /\ chat_result' = r.result
             /\ session_output' = r.output
             /\ session_command' = <<"context add", paths>>
    /\ UNCHANGED <<tool_uses, pending_tool_index, context_manager>>
    /\ UNCHANGED <<agentVars, collectionVars, personaVars, toolsVars, cmdVars, mcpVars, personaLoadVars, restVars>>

\* /context rm
ExecuteContextRemove ==
    /\ \E global \in BOOLEAN, paths \in PathLists, ok \in BOOLEAN :
          LET r == remove_execute_command(ContextRemove(global, paths), context_manager,
                                          tool_uses, pending_tool_index, ok)
          IN /\ chat_result' = r.result
             /\ session_output' = r.output
             /\ session_command' = <<"context rm", paths>>
    /\ UNCHANGED <<tool_uses, pending_tool_index, context_manager>>
    /\ UNCHANGED <<agentVars, collectionVars, personaVars, toolsVars, cmdVars, mcpVars, personaLoadVars, restVars>>

\* /profile set
ExecuteProfileSet ==
    /\ \E name \in PathNames, ok \in BOOLEAN :
          LET r == set_execute_command(ProfileSet(name), context_manager,
                                       tool_uses, pending_tool_index, ok)
          IN /\ chat_result' = r.result
             /\ session_output' = r.output
             /\ session_command' = <<"profile set", <<name>>>>
    /\ UNCHANGED <<tool_uses, pending_tool_index, context_manager>>
    /\ UNCHANGED <<agentVars, collectionVars, personaVars, toolsVars, cmdVars, mcpVars, personaLoadVars, restVars>>

\* /profile delete
ExecuteProfileDelete ==
    /\ \E name \in PathNames, ok \in BOOLEAN :
          LET r == delete_execute_command(ProfileDelete(name), context_manager,
                                          tool_uses, pending_tool_index, ok)
          IN /\ chat_result' = r.result
             /\ session_output' = r.output
             /\ session_command' = <<"profile delete", <<name>>>>
    /\ UNCHANGED <<tool_uses, pending_tool_index, context_manager>>
    /\ UNCHANGED <<agentVars, collectionVars, personaVars, toolsVars, cmdVars, mcpVars, personaLoadVars, restVars>>

(***************************************************************************)
(* parsing of /context add and /context rm                                 *)
(***************************************************************************)

\* the words that follow /context add or /context rm; none of them holds a
\* quote or a blank, so shlex::split and split_whitespace give them back
ArgTokens == {"--global", "--force", "-f", "p1", "p2"}

ArgVectors == UNION {[1..n -> ArgTokens] : n \in 0..MaxArgs}

RECURSIVE add_to_command(_, _, _, _)
\* AddContextCommand::to_command: the loop over args
add_to_command(args, global, force, paths) ==
    IF args = <<>>
    THEN <<"Ok", ContextAdd(global, force, paths)>>
    ELSE IF Head(args) = "--global"
    THEN add_to_command(Tail(args), TRUE, force, paths)
    ELSE IF Head(args) = "--force"
    THEN add_to_command(Tail(args), global, TRUE, paths)
    ELSE add_to_command(Tail(args), global, force, Append(paths, Head(args)))

RECURSIVE remove_to_command(_, _, _)
\* RemoveContextCommand::to_command: the loop over args
remove_to_command(args, global, paths) ==
    IF args = <<>>
    THEN <<"Ok", ContextRemove(global, paths)>>
    ELSE IF Head(args) = "--global"
    THEN remove_to_command(Tail(args), TRUE, paths)
    ELSE remove_to_command(Tail(args), global, Append(paths, Head(args)))

RECURSIVE parse_add(_, _, _, _)
\* Command::parse, "/context add": -f is read as --force, and a command
\* without a path is a usage error
parse_add(args, global, force, paths) ==
    IF args = <<>>
    THEN IF paths = <<>> THEN <<"Err">> ELSE <<"Ok", ContextAdd(global, force, paths)>>
    ELSE IF Head(args) = "--global"
    THEN parse_add(Tail(args), TRUE, force, paths)
    ELSE IF Head(args) = "--force" \/ Head(args) = "-f"
    THEN parse_add(Tail(args), global, TRUE, paths)
    ELSE parse_add(Tail(args), global, force, Append(paths, Head(args)))

RECURSIVE parse_rm(_, _, _)
\* Command::parse, "/context rm"
parse_rm(args, global, paths) ==
    IF args = <<>>
    THEN IF paths = <<>> THEN <<"Err">> ELSE <<"Ok", ContextRemove(global, paths)>>
    ELSE IF Head(args) = "--global"
    THEN parse_rm(Tail(args), TRUE, paths)
    ELSE parse_rm(Tail(args), global, Append(paths, Head(args)))

\* the two ways a /context add or rm line becomes a Command
ParseInput(parser, subcommand, args) ==
    [parser |-> parser, subcommand |-> subcommand, args |-> args]

InitParseVars ==
    /\ parse_input = <<>>
    /\ parse_result = <<>>

\* a handler's to_command is given the arguments of the command
ToCommand ==
    /\ \E subcommand \in {"add", "rm"}, args \in ArgVectors :
          /\ parse_input' = <<ParseInput("to_command", subcommand, args)>>
          /\ parse_result' = IF subcommand = "add"
                             THEN add_to_command(args, FALSE, FALSE, <<>>)
                             ELSE remove_to_command(args, FALSE, <<>>)
    /\ UNCHANGED <<agentVars, collectionVars, personaVars, toolsVars, cmdVars, mcpVars, personaLoadVars, sessionVars>>
    /\ UNCHANGED <<codecVars, subjectVars, cacheVars, completionVars, threadVars>>

\* Command::parse is given the line the user typed
Parse ==
    /\ \E subcommand \in {"add", "rm"}, args \in ArgVectors :
          /\ parse_input' = <<ParseInput("parse", subcommand, args)>>
          /\ parse_result' = IF subcommand = "add"
                             THEN parse_add(args, FALSE, FALSE, <<>>)
                             ELSE parse_rm(args, FALSE, <<>>)
    /\ UNCHANGED <<agentVars, collectionVars, personaVars, toolsVars, cmdVars, mcpVars, personaLoadVars, sessionVars>>
    /\ UNCHANGED <<codecVars, subjectVars, cacheVars, completionVars, threadVars>>

(***************************************************************************)
(* persona.rs: PermissionSubject, ToolPermission and ToolPermissions on    *)
(* the wire                                                                *)
(***************************************************************************)

\* serde_json values: null, a string, an array of strings, an object as the
\* sequence of its <<key, value>> members in document order
JNull == [t |-> "null", s |-> "", items |-> <<>>, entries |-> <<>>]

JStr(s) == [t |-> "string", s |-> s, items |-> <<>>, entries |-> <<>>]

JList(items) == [t |-> "array", s |-> "", items |-> items, entries |-> <<>>]

JMap(entries) == [t |-> "object", s |-> "", items |-> <<>>, entries |-> entries]

\* Result::Err of a serializer or deserializer
CodecErr(kind) == <<"Err", "serde", kind>>

\* PermissionSubject::All
SubjectAll == [variant |-> "All", name |-> ""]

\* PermissionSubject::ExactName(name)
ExactName(name) == [variant |-> "ExactName", name |-> name]

\* impl Borrow<str> for PermissionSubject: the canonical string
borrow(subject) == IF subject.variant = "All" THEN Wildcard ELSE subject.name

\* impl PartialEq for PermissionSubject
subject_eq(a, b) == borrow(a) = borrow(b)

\* <str as Hash>::hash under the map's hasher: a function of the string, with
\* two strings that share a hash value
str_hash(s) ==
    CASE s = Wildcard -> 0
      [] s = "fs_read" -> 1
      [] s = "git" -> 1
      [] OTHER -> 2

\* a hash that feeds the variant to the hasher, as #[derive(Hash)] would
subject_hash_Derived(subject) ==
    IF subject.variant = "All" THEN 2 ELSE str_hash(subject.name)

\* impl Hash for PermissionSubject
subject_hash(subject) == str_hash(borrow(subject))

\* impl Deserialize for PermissionSubject, applied to a decoded string
deserialize_subject(s) == IF s = Wildcard THEN SubjectAll ELSE ExactName(s)

\* #[derive(Serialize)] for PermissionSubject as the key of a JSON object:
\* serde_json writes the name of a unit variant and refuses a newtype variant
serialize_subject_key(subject) ==
    IF subject.variant = "All" THEN <<"Ok", "All">> ELSE CodecErr("key must be a string")

\* #[derive(Serialize)] #[serde(rename_all = "camelCase", untagged)] for
\* ToolPermission: an untagged unit variant is written as null, the fields
\* of DetailedList keep their Rust names
serialize_permission(perm) ==
    IF perm.kind = "DetailedList"
    THEN JMap(<<<<"always_allow", JList(perm.always_allow)>>, <<"deny", JList(perm.deny)>>>>)
    ELSE JNull

\* next_value::<Vec<String>>()
deserialize_list(json) ==
    IF json.t = "array" THEN <<"Ok", json.items>> ELSE CodecErr("invalid type")

\* a visit_map that skips the keys it does not know
RECURSIVE visit_map_Lenient(_, _, _)
visit_map_Lenient(entries, always_allow, deny) ==
    IF entries = <<>>
    THEN <<"Ok", DetailedList(always_allow, deny)>>
    ELSE LET key == Head(entries)[1]
             value == deserialize_list(Head(entries)[2])
         IN IF key \notin {"alwaysAllow", "deny"}
            THEN visit_map_Lenient(Tail(entries), always_allow, deny)
            ELSE IF value[1] = "Err"
            THEN value
            ELSE IF key = "alwaysAllow"
            THEN visit_map_Lenient(Tail(entries), value[2], deny)
            ELSE visit_map_Lenient(Tail(entries), always_allow, value[2])

\* ToolPermissionVisitor::visit_map: the loop over the members of the object
RECURSIVE visit_map(_, _, _)
visit_map(entries, always_allow, deny) ==
    IF entries = <<>>
    THEN <<"Ok", DetailedList(always_allow, deny)>>
    ELSE LET key == Head(entries)[1]
             value == deserialize_list(Head(entries)[2])
         IN IF key \notin {"alwaysAllow", "deny"}
            THEN CodecErr("unknown field")
            ELSE IF value[1] = "Err"
            THEN value
            ELSE IF key = "alwaysAllow"
            THEN visit_map(Tail(entries), value[2], deny)
            ELSE visit_map(Tail(entries), always_allow, value[2])

\* ToolPermissionVisitor::visit_str
visit_str(value) ==
    IF value = "alwaysAllow" THEN <<"Ok", PermAlwaysAllow>>
    ELSE IF value = "deny" THEN <<"Ok", PermDeny>>
    ELSE CodecErr("unknown variant")

\* impl Deserialize for ToolPermission: deserialize_any hands a string to
\* visit_str and an object to visit_map; the visitor has no other method
deserialize_permission(json) ==
    IF json.t = "string" THEN visit_str(json.s)
    ELSE IF json.t = "object" THEN visit_map(json.entries, <<>>, <<>>)
    ELSE CodecErr("invalid type")

\* HashMap::insert on a map held as the sequence of its <<key, value>>
\* entries: the value of an equal key is replaced, the stored key is kept
map_insert(entries, key, value) ==
    IF \E i \in DOMAIN entries : subject_eq(entries[i][1], key)
    THEN [i \in DOMAIN entries |->
             IF subject_eq(entries[i][1], key) THEN <<entries[i][1], value>> ELSE entries[i]]
    ELSE Append(entries, <<key, value>>)

\* Serialize for HashMap<PermissionSubject, ToolPermission>
RECURSIVE serialize_perm_map(_, _)
serialize_perm_map(entries, out) ==
    IF entries = <<>>
    THEN <<"Ok", JMap(out)>>
    ELSE LET key == serialize_subject_key(Head(entries)[1])
         IN IF key[1] = "Err"
            THEN key
            ELSE serialize_perm_map(Tail(entries),
                                    Append(out, <<key[2], serialize_permission(Head(entries)[2])>>))

\* the members #[serde(flatten)] adds for ToolPermissions.custom
RECURSIVE serialize_custom(_, _)
serialize_custom(entries, out) ==
    IF entries = <<>>
    THEN <<"Ok", out>>
    ELSE LET key == serialize_subject_key(Head(entries)[1])
             value == serialize_perm_map(Head(entries)[2], <<>>)
         IN IF key[1] = "Err" THEN key
            ELSE IF value[1] = "Err" THEN value
            ELSE serialize_custom(Tail(entries), Append(out, <<key[2], value[2]>>))

\* #[derive(Serialize)] for ToolPermissions: the member builtIn, then the
\* members of custom
serialize(table) ==
    LET built_in == serialize_perm_map(table.built_in, <<>>)
        custom == serialize_custom(table.custom, <<>>)
    IN IF built_in[1] = "Err" THEN built_in
       ELSE IF custom[1] = "Err" THEN custom
       ELSE <<"Ok", JMap(<<<<"builtIn", built_in[2]>>>> \o custom[2])>>

\* Deserialize for HashMap<PermissionSubject, ToolPermission>
RECURSIVE deserialize_perm_map(_, _)
deserialize_perm_map(entries, out) ==
    IF entries = <<>>
    THEN <<"Ok", out>>
    ELSE LET value == deserialize_permission(Head(entries)[2])
         IN IF value[1] = "Err"
            THEN value
            ELSE deserialize_perm_map(Tail(entries),
                                      map_insert(out, deserialize_subject(Head(entries)[1]), value[2]))

\* Deserialize for the flattened ToolPermissions.custom, from the members
\* the struct did not claim
RECURSIVE deserialize_custom(_, _)
deserialize_custom(entries, out) ==
    IF entries = <<>>
    THEN <<"Ok", out>>
    ELSE LET json == Head(entries)[2]
             value == IF json.t = "object"
                      THEN deserialize_perm_map(json.entries, <<>>)
                      ELSE CodecErr("invalid type")
         IN IF value[1] = "Err"
            THEN value
            ELSE deserialize_custom(Tail(entries),
                                    map_insert(out, deserialize_subject(Head(entries)[1]), value[2]))

\* #[derive(Deserialize)] for ToolPermissions
deserialize(json) ==
    IF json.t # "object"
    THEN CodecErr("invalid type")
    ELSE LET named == SelectSeq(json.entries, LAMBDA e : e[1] = "builtIn")
             others == SelectSeq(json.entries, LAMBDA e : e[1] # "builtIn")
         IN IF named = <<>> THEN CodecErr("missing field")
            ELSE IF Len(named) > 1 THEN CodecErr("duplicate field")
            ELSE LET built_in == IF named[1][2].t = "object"
                                 THEN deserialize_perm_map(named[1][2].entries, <<>>)
                                 ELSE CodecErr("invalid type")
                     custom == deserialize_custom(others, <<>>)
                 IN IF built_in[1] = "Err" THEN built_in
                    ELSE IF custom[1] = "Err" THEN custom
                    ELSE <<"Ok", [built_in |-> built_in[2], custom |-> custom[2]]>>

\* serialize, then decode what was written
round_trip_of(table) ==
    LET written == serialize(table)
    IN IF written[1] = "Err" THEN written ELSE deserialize(written[2])

\* subjects of the tables: the wildcard in both spellings and exact names
Subjects == {SubjectAll, ExactName(Wildcard), ExactName("fs_read"), ExactName("git")}

\* permissions of the tables
WirePerms == {PermAlwaysAllow, PermDeny, DetailedList(<<"a">>, <<>>)}

\* maps of at most n entries under subjects of S, no two of them equal
SubjectMaps(S, V, n) ==
    {m \in UNION {[1..k -> S \X V] : k \in 0..n} :
        \A i, j \in DOMAIN m : i # j => ~subject_eq(m[i][1], m[j][1])}

\* ToolPermissions tables: built-in entries and custom servers with entries
WireTables ==
    [built_in : SubjectMaps({SubjectAll, ExactName("fs_read")}, WirePerms, MaxKeys),
     custom : SubjectMaps({SubjectAll, ExactName("git")},
                          SubjectMaps({SubjectAll, ExactName("fs_read")}, WirePerms, 1), 1)]

\* JSON values handed to the decoder of ToolPermission
WireLists == {JList(<<>>), JList(<<"a">>), JStr("a")}

WireKeys == {"alwaysAllow", "deny", "always_allow"}

WireValues ==
    {JNull, JList(<<"a">>)}
    \cup {JStr(s) : s \in {"alwaysAllow", "deny", "allow"}}
    \cup {JMap(m) : m \in UNION {[1..k -> WireKeys \X WireLists] : k \in 0..MaxKeys}}

\* HashMap<PermissionSubject, V> as its buckets: one sequence of entries per
\* hash value
EmptyBuckets == [h \in 0..2 |-> <<>>]

\* HashMap::insert: the bucket of the key's hash is searched for an equal key
bucket_insert(buckets, key, value) ==
    [buckets EXCEPT ![subject_hash(key)] = map_insert(@, key, value)]

\* HashMap::get(&str): the bucket of the string's hash is searched for a key
\* whose borrowed string equals it
bucket_get(buckets, name) ==
    LET bucket == buckets[str_hash(name)]
        found == SelectSeq(bucket, LAMBDA e : borrow(e[1]) = name)
    IN IF found = <<>> THEN <<>> ELSE <<found[1][2]>>

\* the value or the table the codec is applied to
InitCodecVars ==
    /\ \/ /\ \E json \in WireValues : json_input = <<json>>
          /\ table_input = <<>>
       \/ /\ \E table \in WireTables : table_input = <<table>>
          /\ json_input = <<>>
    /\ decoded = <<>>
    /\ round_trip = <<>>

InitSubjectVars ==
    /\ subject_map = EmptyBuckets
    /\ insert_log = <<>>
    /\ lookup_key = <<>>
    /\ lookup_result = <<>>
    /\ lookup_after = 0

\* serde_json::from_value::<ToolPermission>
DeserializePermission ==
    /\ json_input # <<>>
    /\ decoded' = deserialize_permission(json_input[1])
    /\ UNCHANGED <<json_input, table_input, round_trip, subjectVars>>
    /\ UNCHANGED <<agentVars, collectionVars, personaVars, toolsVars, cmdVars, mcpVars, personaLoadVars>>
    /\ UNCHANGED <<sessionVars, parseVars, cacheVars, completionVars, threadVars>>

\* serde_json::to_value of a table, then serde_json::from_value
RoundTrip ==
    /\ table_input # <<>>
    /\ round_trip' = round_trip_of(table_input[1])
    /\ UNCHANGED <<json_input, decoded, table_input, subjectVars>>
    /\ UNCHANGED <<agentVars, collectionVars, personaVars, toolsVars, cmdVars, mcpVars, personaLoadVars>>
    /\ UNCHANGED <<sessionVars, parseVars, cacheVars, completionVars, threadVars>>

\* HashMap::insert(subject, permission)
MapInsert ==
    /\ Len(insert_log) < MaxInserts
    /\ \E subject \in Subjects, perm \in SimplePerms :
          /\ subject_map' = bucket_insert(subject_map, subject, perm)
          /\ insert_log' = Append(insert_log, <<subject, perm>>)
    /\ UNCHANGED <<codecVars, lookup_key, lookup_result, lookup_after>>
    /\ UNCHANGED <<agentVars, collectionVars, personaVars, toolsVars, cmdVars, mcpVars, personaLoadVars>>
    /\ UNCHANGED <<sessionVars, parseVars, cacheVars, completionVars, threadVars>>

\* HashMap::get(name), as in perms.built_in.contains_key("fs_read")
MapGet ==
    /\ \E name \in {Wildcard, "fs_read", "git", "All"} :
          /\ lookup_key' = <<name>>
          /\ lookup_result' = bucket_get(subject_map, name)
          /\ lookup_after' = Len(insert_log)
    /\ UNCHANGED <<codecVars, subject_map, insert_log>>
    /\ UNCHANGED <<agentVars, collectionVars, personaVars, toolsVars, cmdVars, mcpVars, personaLoadVars>>
    /\ UNCHANGED <<sessionVars, parseVars, cacheVars, completionVars, threadVars>>

(***************************************************************************)
(* completion_cache.rs: CompletionCache                                    *)
(***************************************************************************)

\* the characters of the strings stored in the cache or asked for
cache_chars ==
    ("" :> <<>>)
    @@ ("a" :> <<"a">>)
    @@ ("b" :> <<"b">>)
    @@ ("A" :> <<"A">>)
    @@ ("B" :> <<"B">>)
    @@ ("ab" :> <<"a", "b">>)
    @@ ("Ab" :> <<"A", "b">>)
    @@ ("ba" :> <<"b", "a">>)

\* the byte of a character
byte == ("A" :> 65) @@ ("B" :> 66) @@ ("a" :> 97) @@ ("b" :> 98)

\* char::to_lowercase
lower == ("A" :> "a") @@ ("B" :> "b") @@ ("a" :> "a") @@ ("b" :> "b")

\* str::to_lowercase, as a sequence of characters
to_lowercase(s) == [i \in DOMAIN cache_chars[s] |-> lower[cache_chars[s][i]]]

\* str::starts_with
starts_with(item, query) == IsPrefix(cache_chars[query], cache_chars[item])

\* str::contains on sequences of characters
contains(s, p) == \E i \in 0..(Len(s) - Len(p)) : SubSeq(s, i + 1, i + Len(p)) = p

\* <str as Ord>::lt: the byte-wise lexicographic order
str_less(x, y) ==
    LET a == cache_chars[x]
        b == cache_chars[y]
    IN \E i \in 1..(Len(b)) :
          /\ \A j \in 1..(i - 1) : j <= Len(a) /\ a[j] = b[j]
          /\ \/ i = Len(a) + 1
             \/ i <= Len(a) /\ byte[a[i]] < byte[b[i]]

Categories == {"c1", "c2"}

Keys == {"k1", "k2"}

\* the (category, key) pairs the callers use
Pairs == {<<"c1", "k1">>, <<"c1", "k2">>, <<"c2", "k1">>}

\* values the callers store
CacheValues == {"a", "b"}

\* values stored for matching, and the queries
MatchValues == {"ab", "Ab", "ba", "b", "B"}

Queries == {"", "a", "b", "A", "ab"}

\* CompletionCache::new: no category
EmptyCache == [c \in Categories |-> <<>>]

\* HashMap::new for the keys of a category
NoKeys == [k \in Keys |-> <<>>]

\* cache.entry(category).or_insert_with(HashMap::new)
category_map(tbl, category) == IF tbl[category] = <<>> THEN NoKeys ELSE tbl[category][1]

\* category_map.entry(key).or_insert_with(BTreeSet::new): a BTreeSet as the
\* ascending sequence of its elements
set_of(tbl, category, key) ==
    LET map == category_map(tbl, category)
    IN IF map[key] = <<>> THEN <<>> ELSE map[key][1]

\* the tbl with the BTreeSet of (category, key) replaced
with_set(tbl, category, key, set) ==
    [tbl EXCEPT ![category] = <<[category_map(tbl, category) EXCEPT ![key] = <<set>>]>>]

\* a BTreeSet::insert that appends
btree_insert_Append(set, value) == Append(set, value)

\* BTreeSet::insert
btree_insert(set, value) ==
    IF \E i \in DOMAIN set : set[i] = value
    THEN set
    ELSE LET before == SelectSeq(set, LAMBDA x : str_less(x, value))
             after == SelectSeq(set, LAMBDA x : str_less(value, x))
         IN before \o <<value>> \o after

\* BTreeSet::remove
btree_remove(set, value) == SelectSeq(set, LAMBDA x : x # value)

\* BTreeSet::extend
RECURSIVE extend(_, _)
extend(set, values) ==
    IF values = <<>> THEN set ELSE extend(btree_insert(set, Head(values)), Tail(values))

\* CompletionCache::has_category
has_category(tbl, category) == tbl[category] # <<>>

\* CompletionCache::has_key
has_key(tbl, category, key) ==
    IF tbl[category] = <<>> THEN FALSE ELSE tbl[category][1][key] # <<>>

\* CompletionCache::get
cache_get(tbl, category, key) ==
    IF has_key(tbl, category, key) THEN tbl[category][1][key][1] ELSE <<>>

\* CompletionCache::update
cache_update(tbl, category, key, values) ==
    with_set(tbl, category, key, extend(<<>>, values))

\* CompletionCache::add
cache_add(tbl, category, key, value) ==
    with_set(tbl, category, key, btree_insert(set_of(tbl, category, key), value))

\* CompletionCache::remove
cache_remove(tbl, category, key, value) ==
    IF has_key(tbl, category, key)
    THEN with_set(tbl, category, key, btree_remove(set_of(tbl, category, key), value))
    ELSE tbl

\* CompletionCache::clear
cache_clear(tbl, category, key) ==
    IF has_key(tbl, category, key) THEN with_set(tbl, category, key, <<>>) ELSE tbl

\* the score get_fuzzy_matches gives an item: 0 stands for None
score(item, query) ==
    IF starts_with(item, query) THEN 100
    ELSE IF contains(to_lowercase(item), to_lowercase(query)) THEN 50
    ELSE 0

\* a get_fuzzy_matches that leaves the matches in the order of the set
get_fuzzy_matches_Unsorted(tbl, category, key, query) ==
    SelectSeq(cache_get(tbl, category, key), LAMBDA item : score(item, query) > 0)

\* CompletionCache::get_fuzzy_matches: the items with a score, after the
\* stable sort by descending score
get_fuzzy_matches(tbl, category, key, query) ==
    LET items == cache_get(tbl, category, key)
    IN SelectSeq(items, LAMBDA item : score(item, query) = 100)
       \o SelectSeq(items, LAMBDA item : score(item, query) = 50)

\* Iterator::take
take(s, n) == SubSeq(s, 1, IF n < Len(s) THEN n ELSE Len(s))

\* CompletionCache::get_best_matches
get_best_matches(tbl, category, key, query, max_results) ==
    take(get_fuzzy_matches(tbl, category, key, query), max_results)

\* a call of the cache
Call(op, category, key, values, query, max_results) ==
    [op |-> op, category |-> category, key |-> key, values |-> values,
     query |-> query, max_results |-> max_results]

\* the lists a caller hands to update
ValueLists(V) == UNION {[1..n -> V] : n \in 0..MaxValues}

InitCacheVars ==
    /\ cache = EmptyCache
    /\ cache_call = <<>>
    /\ cache_result = <<>>

\* a cache holding one set to match against
InitMatchVars ==
    /\ \E values \in ValueLists(MatchValues) : cache = cache_update(EmptyCache, "c1", "k1", values)
    /\ cache_call = <<>>
    /\ cache_result = <<>>

CacheUpdate ==
    /\ \E p \in Pairs, values \in ValueLists(CacheValues) :
          /\ cache' = cache_update(cache, p[1], p[2], values)
          /\ cache_call' = <<Call("update", p[1], p[2], values, "", 0)>>
    /\ cache_result' = <<>>
    /\ UNCHANGED <<agentVars, collectionVars, personaVars, toolsVars, cmdVars, mcpVars, personaLoadVars>>
    /\ UNCHANGED <<sessionVars, parseVars, codecVars, subjectVars, completionVars, threadVars>>

CacheAdd ==
    /\ \E p \in Pairs, value \in CacheValues :
          /\ cache' = cache_add(cache, p[1], p[2], value)
          /\ cache_call' = <<Call("add", p[1], p[2], <<value>>, "", 0)>>
    /\ cache_result' = <<>>
    /\ UNCHANGED <<agentVars, collectionVars, personaVars, toolsVars, cmdVars, mcpVars, personaLoadVars>>
    /\ UNCHANGED <<sessionVars, parseVars, codecVars, subjectVars, completionVars, threadVars>>

CacheRemove ==
    /\ \E p \in Pairs, value \in CacheValues :
          /\ cache' = cache_remove(cache, p[1], p[2], value)
          /\ cache_call' = <<Call("remove", p[1], p[2], <<value>>, "", 0)>>
    /\ cache_result' = <<>>
    /\ UNCHANGED <<agentVars, collectionVars, personaVars, toolsVars, cmdVars, mcpVars, personaLoadVars>>
    /\ UNCHANGED <<sessionVars, parseVars, codecVars, subjectVars, completionVars, threadVars>>

CacheClear ==
    /\ \E p \in Pairs :
          /\ cache' = cache_clear(cache, p[1], p[2])
          /\ cache_call' = <<Call("clear", p[1], p[2], <<>>, "", 0)>>
    /\ cache_result' = <<>>
    /\ UNCHANGED <<agentVars, collectionVars, personaVars, toolsVars, cmdVars, mcpVars, personaLoadVars>>
    /\ UNCHANGED <<sessionVars, parseVars, codecVars, subjectVars, completionVars, threadVars>>

CacheGet ==
    /\ \E p \in Pairs :
          /\ cache_call' = <<Call("get", p[1], p[2], <<>>, "", 0)>>
          /\ cache_result' = cache_get(cache, p[1], p[2])
    /\ UNCHANGED cache
    /\ UNCHANGED <<agentVars, collectionVars, personaVars, toolsVars, cmdVars, mcpVars, personaLoadVars>>
    /\ UNCHANGED <<sessionVars, parseVars, codecVars, subjectVars, completionVars, threadVars>>

GetBestMatches ==
    /\ \E p \in Pairs, query \in Queries, max_results \in 0..MaxResults :
          /\ cache_call' = <<Call("get_best_matches", p[1], p[2], <<>>, query, max_results)>>
          /\ cache_result' = get_best_matches(cache, p[1], p[2], query, max_results)
    /\ UNCHANGED cache
    /\ UNCHANGED <<agentVars, collectionVars, personaVars, toolsVars, cmdVars, mcpVars, personaLoadVars>>
    /\ UNCHANGED <<sessionVars, parseVars, codecVars, subjectVars, completionVars, threadVars>>

(***************************************************************************)
(* command.rs: Command::get_completion_suggestions, with the               *)
(* CompletionCache of commands/completion_adapter.rs                       *)
(***************************************************************************)

\* Command::all_commands: the names, in the order of the vector
all_commands ==
    <<"help", "quit", "clear", "context", "profile", "tools", "compact", "usage", "editor",
      "issue">>

\* Command::get_subcommand_handlers: the names, for the commands asked for
get_subcommand_handlers(command) ==
    CASE command = "profile" -> <<"list", "create", "delete", "set", "rename", "help">>
      [] command = "context" -> <<"add", "rm", "clear", "show", "hooks", "help">>
      [] OTHER -> <<>>

\* completion_adapter.rs CompletionCache::has_category
stub_has_category(category) == FALSE

\* completion_adapter.rs CompletionCache::has_key
stub_has_key(category, key) == FALSE

\* completion_adapter.rs CompletionCache::get
stub_get(category, key) == <<>>

\* completion_adapter.rs CompletionCache::get_best_matches
stub_get_best_matches(category, key, query, max_results) == <<>>

\* a partial command: "/" and the characters typed after it, without a
\* space, or "/", a command and a space
Typed(prefix) == [prefix |-> prefix, command |-> "", space |-> FALSE]

TypedCommand(command) == [prefix |-> <<>>, command |-> command, space |-> TRUE]

\* format!("/{}", name): the suggestion as its parts
Slash(names) == [i \in DOMAIN names |-> <<"/", names[i]>>]

\* format!("/{} {}", command, name)
SlashCommand(command, names) == [i \in DOMAIN names |-> <<"/", command, names[i]>>]

\* Command::get_completion_suggestions(partial_command, completion_ctx):
\* the branches for "/", for a partial top-level command and for a command
\* followed by a space; ctx tells whether a completion context is given, and
\* its cache is the CompletionCache of completion_adapter.rs, whose update
\* stores nothing
get_completion_suggestions(partial, ctx) ==
    IF ~partial.space /\ partial.prefix = <<>>
    THEN Slash(all_commands)
    ELSE IF ~partial.space
    THEN IF ctx
         THEN Slash(stub_get_best_matches("commands", "top_level", partial.prefix, 10))
         ELSE Slash(SelectSeq(all_commands, LAMBDA name : IsPrefix(partial.prefix, chars[name])))
    ELSE IF ctx
         THEN SlashCommand(partial.command, stub_get("commands", <<partial.command, "_subcommands">>))
         ELSE SlashCommand(partial.command, get_subcommand_handlers(partial.command))

\* what is typed after the slash: the beginnings of the command names and a
\* letter no command starts with
TypedPrefixes ==
    UNION {{SubSeq(chars[all_commands[i]], 1, n) : n \in 0..Len(chars[all_commands[i]])} :
              i \in DOMAIN all_commands}
    \cup {<<"x">>}

PartialCommands ==
    {Typed(prefix) : prefix \in TypedPrefixes}
    \cup {TypedCommand(command) : command \in {"profile", "context", "quit"}}

InitCompletionVars ==
    /\ completion_request = <<>>
    /\ completion_result = <<>>

\* a tab completion request
Complete ==
    /\ \E partial \in PartialCommands, ctx \in BOOLEAN :
          /\ completion_request' = <<[partial |-> partial, ctx |-> ctx]>>
          /\ completion_result' = get_completion_suggestions(partial, ctx)
    /\ UNCHANGED <<agentVars, collectionVars, personaVars, toolsVars, cmdVars, mcpVars, personaLoadVars>>
    /\ UNCHANGED <<sessionVars, parseVars, codecVars, subjectVars, cacheVars, threadVars>>

(***************************************************************************)
(* completion_cache.rs: CompletionCache under concurrent callers.  Each    *)
(* operation is a thread that takes the RwLock, runs the statements of its *)
(* body one at a time and releases the lock.                               *)
(***************************************************************************)

\* the threads that call the cache
Procs == {1, 2, 3}

\* RwLock::new: no writer (0), no reader
Unlocked == [writer |-> 0, readers |-> {}]

\* a read() that does not wait for the writer
can_read_Always(lk) == TRUE

\* RwLock::read returns when no thread holds the write guard
can_read(lk) == lk.writer = 0

\* RwLock::write returns when no thread holds a guard
can_write(lk) == lk.writer = 0 /\ lk.readers = {}

\* the calls the threads make, all on one (category, key)
ThreadCalls ==
    {Call("get", "c1", "k1", <<>>, "", 0),
     Call("get_best_matches", "c1", "k1", <<>>, "a", 1),
     Call("update", "c1", "k1", <<"b", "a">>, "", 0),
     Call("add", "c1", "k1", <<"a">>, "", 0),
     Call("add", "c1", "k1", <<"ab">>, "", 0),
     Call("remove", "c1", "k1", <<"b">>, "", 0),
     Call("clear", "c1", "k1", <<>>, "", 0)}

ReadOps == {"get", "get_best_matches"}

\* the cache before the threads start, and the call of each thread
InitThreadVars ==
    /\ cache \in {EmptyCache, cache_update(EmptyCache, "c1", "k1", <<"b">>)}
    /\ cache_at_start = cache
    /\ cache_call = <<>>
    /\ cache_result = <<>>
    /\ rwlock = Unlocked
    /\ calls \in [Procs -> ThreadCalls]
    /\ pc = [p \in Procs |-> "start"]
    /\ to_insert = [p \in Procs |-> <<>>]
    /\ ret = [p \in Procs |-> <<>>]

\* self.cache.read().unwrap()
LockRead(p) ==
    /\ pc[p] = "start"
    /\ calls[p].op \in ReadOps
    /\ can_read(rwlock)
    /\ rwlock' = [rwlock EXCEPT !.readers = @ \cup {p}]
    /\ pc' = [pc EXCEPT ![p] = "locked"]
    /\ UNCHANGED <<cache, cache_at_start, cache_call, cache_result, calls, to_insert, ret>>
    /\ UNCHANGED <<agentVars, collectionVars, personaVars, toolsVars, cmdVars, mcpVars, personaLoadVars>>
    /\ UNCHANGED <<sessionVars, parseVars, codecVars, subjectVars, completionVars>>

\* self.cache.write().unwrap()
LockWrite(p) ==
    /\ pc[p] = "start"
    /\ calls[p].op \notin ReadOps
    /\ can_write(rwlock)
    /\ rwlock' = [rwlock EXCEPT !.writer = p]
    /\ pc' = [pc EXCEPT ![p] = "locked"]
    /\ UNCHANGED <<cache, cache_at_start, cache_call, cache_result, calls, to_insert, ret>>
    /\ UNCHANGED <<agentVars, collectionVars, personaVars, toolsVars, cmdVars, mcpVars, personaLoadVars>>
    /\ UNCHANGED <<sessionVars, parseVars, codecVars, subjectVars, completionVars>>

\* the body of get and of get_best_matches under the read guard
ReadBody(p) ==
    /\ pc[p] = "locked"
    /\ calls[p].op \in ReadOps
    /\ ret' = [ret EXCEPT ![p] =
                 <<IF calls[p].op = "get"
                   THEN cache_get(cache, calls[p].category, calls[p].key)
                   ELSE get_best_matches(cache, calls[p].category, calls[p].key,
                                         calls[p].query, calls[p].max_results)>>]
    /\ pc' = [pc EXCEPT ![p] = "unlock"]
    /\ UNCHANGED <<cache, cache_at_start, cache_call, cache_result, rwlock, calls, to_insert>>
    /\ UNCHANGED <<agentVars, collectionVars, personaVars, toolsVars, cmdVars, mcpVars, personaLoadVars>>
    /\ UNCHANGED <<sessionVars, parseVars, codecVars, subjectVars, completionVars>>

\* update and add: cache.entry(category).or_insert_with(HashMap::new) and
\* category_map.entry(key).or_insert_with(BTreeSet::new)
Entry(p) ==
    /\ pc[p] = "locked"
    /\ calls[p].op \in {"update", "add"}
    /\ cache' = with_set(cache, calls[p].category, calls[p].key,
                         set_of(cache, calls[p].category, calls[p].key))
    /\ pc' = [pc EXCEPT ![p] = IF calls[p].op = "update" THEN "clear" ELSE "insert"]
    /\ UNCHANGED <<cache_at_start, cache_call, cache_result, rwlock, calls, to_insert, ret>>
    /\ UNCHANGED <<agentVars, collectionVars, personaVars, toolsVars, cmdVars, mcpVars, personaLoadVars>>
    /\ UNCHANGED <<sessionVars, parseVars, codecVars, subjectVars, completionVars>>

\* update: set.clear()
SetClear(p) ==
    /\ pc[p] = "clear"
    /\ cache' = with_set(cache, calls[p].category, calls[p].key, <<>>)
    /\ to_insert' = [to_insert EXCEPT ![p] = calls[p].values]
    /\ pc' = [pc EXCEPT ![p] = "extend"]
    /\ UNCHANGED <<cache_at_start, cache_call, cache_result, rwlock, calls, ret>>
    /\ UNCHANGED <<agentVars, collectionVars, personaVars, toolsVars, cmdVars, mcpVars, personaLoadVars>>
    /\ UNCHANGED <<sessionVars, parseVars, codecVars, subjectVars, completionVars>>

\* update: set.extend(values), one value at a time
SetExtend(p) ==
    /\ pc[p] = "extend"
    /\ IF to_insert[p] = <<>>
       THEN /\ pc' = [pc EXCEPT ![p] = "unlock"]
            /\ UNCHANGED <<cache, to_insert>>
       ELSE /\ cache' = with_set(cache, calls[p].category, calls[p].key,
                                 btree_insert(set_of(cache, calls[p].category, calls[p].key),
                                              Head(to_insert[p])))
            /\ to_insert' = [to_insert EXCEPT ![p] = Tail(@)]
            /\ UNCHANGED pc
    /\ UNCHANGED <<cache_at_start, cache_call, cache_result, rwlock, calls, ret>>
    /\ UNCHANGED <<agentVars, collectionVars, personaVars, toolsVars, cmdVars, mcpVars, personaLoadVars>>
    /\ UNCHANGED <<sessionVars, parseVars, codecVars, subjectVars, completionVars>>

\* add: set.insert(value)
SetInsert(p) ==
    /\ pc[p] = "insert"
    /\ cache' = with_set(cache, calls[p].category, calls[p].key,
                         btree_insert(set_of(cache, calls[p].category, calls[p].key),
                                      calls[p].values[1]))
    /\ pc' = [pc EXCEPT ![p] = "unlock"]
    /\ UNCHANGED <<cache_at_start, cache_call, cache_result, rwlock, calls, to_insert, ret>>
    /\ UNCHANGED <<agentVars, collectionVars, personaVars, toolsVars, cmdVars, mcpVars, personaLoadVars>>
    /\ UNCHANGED <<sessionVars, parseVars, codecVars, subjectVars, completionVars>>

\* the body of remove and of clear under the write guard
RemoveOrClear(p) ==
    /\ pc[p] = "locked"
    /\ calls[p].op \in {"remove", "clear"}
    /\ cache' = IF calls[p].op = "remove"
                THEN cache_remove(cache, calls[p].category, calls[p].key, calls[p].values[1])
                ELSE cache_clear(cache, calls[p].category, calls[p].key)
    /\ pc' = [pc EXCEPT ![p] = "unlock"]
    /\ UNCHANGED <<cache_at_start, cache_call, cache_result, rwlock, calls, to_insert, ret>>
    /\ UNCHANGED <<agentVars, collectionVars, personaVars, toolsVars, cmdVars, mcpVars, personaLoadVars>>
    /\ UNCHANGED <<sessionVars, parseVars, codecVars, subjectVars, completionVars>>

\* the guard is dropped and the call returns
Unlock(p) ==
    /\ pc[p] = "unlock"
    /\ rwlock' = [writer |-> IF rwlock.writer = p THEN 0 ELSE rwlock.writer,
                  readers |-> rwlock.readers \ {p}]
    /\ pc' = [pc EXCEPT ![p] = "done"]
    /\ UNCHANGED <<cache, cache_at_start, cache_call, cache_result, calls, to_insert, ret>>
    /\ UNCHANGED <<agentVars, collectionVars, personaVars, toolsVars, cmdVars, mcpVars, personaLoadVars>>
    /\ UNCHANGED <<sessionVars, parseVars, codecVars, subjectVars, completionVars>>

(***************************************************************************)
(* Specifications                                                          *)
(***************************************************************************)

\* values of the variables of a subsystem that a specification leaves alone
IdleAgentVars ==
    /\ agents = <<DefaultAgent>>
    /\ active_idx = 0
    /\ load_output = <<>>
    /\ loaded = TRUE
    /\ local_dir = <<>>
    /\ global_dir = <<>>
    /\ local_agents = <<>>
    /\ global_agents = <<>>
    /\ switch_result = <<>>
    /\ switch_request = <<>>
    /\ publish_result = <<>>
    /\ received = <<>>
    /\ perm_agent = <<>>
    /\ perm_request = <<>>
    /\ perm_result = None
    /\ candidate_evals = 0

IdlePersonaVars ==
    /\ tool_perms = DefaultToolPermissions
    /\ eval_request = <<>>
    /\ eval_result = None

IdleToolsVars ==
    /\ tool_permissions = <<>>
    /\ tools_output = <<>>
    /\ last_command = <<>>
    /\ repeated = FALSE

IdleCmdVars ==
    /\ internal_command = [command |-> "help", subcommand |-> <<>>, args |-> <<>>, flags |-> <<>>]
    /\ flag_order = <<>>
    /\ acceptance = <<>>

IdleMcpVars ==
    /\ cwd_ok = TRUE
    /\ mcp_global_file = McpFile("missing", <<>>)
    /\ mcp_local_file = McpFile("missing", <<>>)
    /\ mcp_result = <<>>
    /\ mcp_output = <<>>

IdlePersonaLoadVars ==
    /\ persona_local_dir = <<>>
    /\ persona_global_dir = <<>>
    /\ personas = <<>>
    /\ persona_output = <<>>

IdleSessionVars ==
    /\ tool_uses = <<>>
    /\ pending_tool_index = <<>>
    /\ context_manager = <<>>
    /\ chat_result = <<>>
    /\ session_output = <<>>
    /\ session_command = <<>>

IdleParseVars == InitParseVars

IdleCodecVars ==
    /\ json_input = <<>>
    /\ decoded = <<>>
    /\ table_input = <<>>
    /\ round_trip = <<>>

IdleSubjectVars == InitSubjectVars

IdleCacheVars == InitCacheVars

IdleCompletionVars == InitCompletionVars

\* no thread is started
IdleThreadVars ==
    /\ cache_at_start = EmptyCache
    /\ rwlock = Unlocked
    /\ calls = [p \in Procs |-> Call("get", "c1", "k1", <<>>, "", 0)]
    /\ pc = [p \in Procs |-> "done"]
    /\ to_insert = [p \in Procs |-> <<>>]
    /\ ret = [p \in Procs |-> <<>>]

IdleRestVars ==
    /\ IdleParseVars /\ IdleCodecVars /\ IdleSubjectVars /\ IdleCacheVars
    /\ IdleCompletionVars /\ IdleThreadVars

IdleExtVars == IdleSessionVars /\ IdleRestVars

IdleLoadVars == IdleMcpVars /\ IdlePersonaLoadVars /\ IdleExtVars

InitAgent == InitAgentVars /\ IdlePersonaVars /\ IdleToolsVars /\ IdleCmdVars /\ IdleLoadVars

NextAgent == EvalPerm \/ Switch

SpecAgent == InitAgent /\ [][NextAgent]_vars

InitPersona == IdleAgentVars /\ InitPersonaVars /\ IdleToolsVars /\ IdleCmdVars /\ IdleLoadVars

NextPersona == Evaluate

SpecPersona == InitPersona /\ [][NextPersona]_vars

InitTools == IdleAgentVars /\ IdlePersonaVars /\ InitToolsVars /\ IdleCmdVars /\ IdleLoadVars

NextTools == TrustTools \/ UntrustTools \/ ResetSingleTool

SpecTools == InitTools /\ [][NextTools]_vars

InitCmd == IdleAgentVars /\ IdlePersonaVars /\ IdleToolsVars /\ InitCmdVars /\ IdleLoadVars

NextCmd == RequiresAcceptance

SpecCmd == InitCmd /\ [][NextCmd]_vars

\* the three loaders, each on every input while the other two load nothing,
\* and the operations of the collection AgentCollection::load returns
InitLoad ==
    /\ \/ InitCollectionVars /\ IdleMcpVars /\ IdlePersonaLoadVars
       \/ IdleAgentVars /\ InitMcpVars /\ IdlePersonaLoadVars
       \/ IdleAgentVars /\ IdleMcpVars /\ InitPersonaLoadVars
    /\ IdlePersonaVars /\ IdleToolsVars /\ IdleCmdVars /\ IdleExtVars

NextLoad == Switch \/ Publish \/ LoadConfig \/ LoadPersonas

SpecLoad == InitLoad /\ [][NextLoad]_vars

\* the context and profile commands and, of the tools commands, trust and
\* reset, with a pending tool use
InitSession ==
    /\ IdleAgentVars /\ IdlePersonaVars /\ InitToolsVars /\ IdleCmdVars
    /\ IdleMcpVars /\ IdlePersonaLoadVars /\ InitSessionVars /\ IdleRestVars

NextSession ==
    \/ ExecuteContextAdd \/ ExecuteContextRemove
    \/ ExecuteProfileSet \/ ExecuteProfileDelete
    \/ TrustTools \/ ResetSingleTool

SpecSession == InitSession /\ [][NextSession]_vars

\* the parsers of /context add and /context rm
InitParse ==
    /\ IdleAgentVars /\ IdlePersonaVars /\ IdleToolsVars /\ IdleCmdVars
    /\ IdleMcpVars /\ IdlePersonaLoadVars /\ IdleSessionVars /\ InitParseVars
    /\ IdleCodecVars /\ IdleSubjectVars /\ IdleCacheVars /\ IdleCompletionVars
    /\ IdleThreadVars

NextParse == ToCommand \/ Parse

SpecParse == InitParse /\ [][NextParse]_vars

\* the wire format of the permission tables
InitCodec ==
    /\ IdleAgentVars /\ IdlePersonaVars /\ IdleToolsVars /\ IdleCmdVars
    /\ IdleMcpVars /\ IdlePersonaLoadVars /\ IdleSessionVars /\ IdleParseVars
    /\ InitCodecVars /\ IdleSubjectVars /\ IdleCacheVars /\ IdleCompletionVars
    /\ IdleThreadVars

NextCodec == DeserializePermission \/ RoundTrip

SpecCodec == InitCodec /\ [][NextCodec]_vars

\* a hash map keyed by PermissionSubject
InitSubject ==
    /\ IdleAgentVars /\ IdlePersonaVars /\ IdleToolsVars /\ IdleCmdVars
    /\ IdleMcpVars /\ IdlePersonaLoadVars /\ IdleSessionVars /\ IdleParseVars
    /\ IdleCodecVars /\ InitSubjectVars /\ IdleCacheVars /\ IdleCompletionVars
    /\ IdleThreadVars

NextSubject == MapInsert \/ MapGet

SpecSubject == InitSubject /\ [][NextSubject]_vars

\* the completion cache under one caller
InitCache ==
    /\ IdleAgentVars /\ IdlePersonaVars /\ IdleToolsVars /\ IdleCmdVars
    /\ IdleMcpVars /\ IdlePersonaLoadVars /\ IdleSessionVars /\ IdleParseVars
    /\ IdleCodecVars /\ IdleSubjectVars /\ InitCacheVars /\ IdleCompletionVars
    /\ IdleThreadVars

NextCache == CacheUpdate \/ CacheAdd \/ CacheRemove \/ CacheClear \/ CacheGet

SpecCache == InitCache /\ [][NextCache]_vars

\* get_best_matches on every stored set
InitMatch ==
    /\ IdleAgentVars /\ IdlePersonaVars /\ IdleToolsVars /\ IdleCmdVars
    /\ IdleMcpVars /\ IdlePersonaLoadVars /\ IdleSessionVars /\ IdleParseVars
    /\ IdleCodecVars /\ IdleSubjectVars /\ InitMatchVars /\ IdleCompletionVars
    /\ IdleThreadVars

NextMatch == GetBestMatches

SpecMatch == InitMatch /\ [][NextMatch]_vars

\* tab completion of commands
InitCompletion ==
    /\ IdleAgentVars /\ IdlePersonaVars /\ IdleToolsVars /\ IdleCmdVars
    /\ IdleMcpVars /\ IdlePersonaLoadVars /\ IdleSessionVars /\ IdleParseVars
    /\ IdleCodecVars /\ IdleSubjectVars /\ IdleCacheVars /\ InitCompletionVars
    /\ IdleThreadVars

NextCompletion == Complete

SpecCompletion == InitCompletion /\ [][NextCompletion]_vars

\* the completion cache under concurrent callers
InitThreads ==
    /\ IdleAgentVars /\ IdlePersonaVars /\ IdleToolsVars /\ IdleCmdVars
    /\ IdleMcpVars /\ IdlePersonaLoadVars /\ IdleSessionVars /\ IdleParseVars
    /\ IdleCodecVars /\ IdleSubjectVars /\ IdleCompletionVars /\ InitThreadVars

NextThreads ==
    \E p \in Procs :
        \/ LockRead(p) \/ LockWrite(p) \/ ReadBody(p) \/ Entry(p) \/ SetClear(p)
        \/ SetExtend(p) \/ SetInsert(p) \/ RemoveOrClear(p) \/ Unlock(p)

SpecThreads == InitThreads /\ [][NextThreads]_vars

(***************************************************************************)
(* Properties of Agent::eval_perm (SpecAgent)                              *)
(***************************************************************************)

\* C1: a tool with no permission entry evaluates to Ask, also right after a
\* load that found no configuration file: whenever eval_perm ran on the
\* built-in default agent, or on an agent whose allowed_tools neither names
\* the tool nor holds the wildcard, its result is Ask.
C1_UnconfiguredToolAsks ==
    perm_result # None =>
        LET agent == perm_agent[1]
            tool == perm_request[1].tool
        IN (\/ agent = DefaultAgent
            \/ (tool \notin agent.allowed_tools /\ Wildcard \notin agent.allowed_tools))
           => perm_result = Ask

\* C2: whenever the agent's allowed_tools contains "*", with or without other
\* names, eval_perm returns Allow and does not invoke the candidate's eval.
C2_WildcardShortCircuit ==
    perm_result # None =>
        (Wildcard \in perm_agent[1].allowed_tools
            => perm_result = Allow /\ candidate_evals = 0)

(***************************************************************************)
(* Properties of ToolPermissions::evaluate (SpecPersona)                   *)
(***************************************************************************)

\* the entry stored in the table under the subject of the last evaluate, as
\* <<>> or <<entry>>: built_in[tool], or custom[server][tool]
LastConfigured ==
    LET c == eval_request[1]
    IN IF c.server = None
       THEN IF c.tool \in DOMAIN tool_perms.built_in
            THEN <<tool_perms.built_in[c.tool]>> ELSE <<>>
       ELSE IF c.server \in DOMAIN tool_perms.custom
               /\ c.tool \in DOMAIN tool_perms.custom[c.server]
            THEN <<tool_perms.custom[c.server][c.tool]>> ELSE <<>>

\* the last evaluate ran on a DetailedList entry
LastDetailed == LastConfigured # <<>> /\ LastConfigured[1].kind = "DetailedList"

LastDenyMatch == AnyMatch(LastConfigured[1].deny, eval_request[1].arg)

LastAllowMatch == AnyMatch(LastConfigured[1].always_allow, eval_request[1].arg)

\* C3: for a DetailedList entry, an argument matching an entry of deny and an
\* entry of always_allow evaluates to Deny, and Allow is returned only when
\* an always_allow entry matches and no deny entry matches.
C3_DenyPrecedence ==
    (eval_result # None /\ LastDetailed) =>
        /\ (LastDenyMatch /\ LastAllowMatch => eval_result = Deny)
        /\ (eval_result = Allow => LastAllowMatch /\ ~LastDenyMatch)

\* an argument matched by both lists of a DetailedList was evaluated
C3_Witness ==
    /\ eval_result = Deny
    /\ LastDetailed
    /\ LastDenyMatch
    /\ LastAllowMatch

\* C4: a subject with a simple entry evaluates to the decision of the entry,
\* whatever the argument: AlwaysAllow gives Allow, Deny gives Deny.
C4_SimpleEntry ==
    (eval_result # None /\ LastConfigured # <<>>) =>
        /\ (LastConfigured[1] = PermAlwaysAllow => eval_result = Allow)
        /\ (LastConfigured[1] = PermDeny => eval_result = Deny)

\* a built-in tool configured Deny was evaluated with an argument
C4_Witness ==
    /\ eval_result = Deny
    /\ eval_request[1].server = None
    /\ eval_request[1].arg = <<"npm", "install">>
    /\ eval_request[1].tool \in DOMAIN tool_perms.built_in
    /\ tool_perms.built_in[eval_request[1].tool] = PermDeny

\* C5: for a DetailedList entry, an argument matching no entry of
\* always_allow and no entry of deny evaluates to Ask, also when both lists
\* are empty.
C5_NoMatchAsks ==
    (eval_result # None /\ LastDetailed) =>
        (~LastDenyMatch /\ ~LastAllowMatch => eval_result = Ask)

\* a DetailedList with both lists empty was evaluated
C5_Witness ==
    /\ eval_result = Ask
    /\ LastDetailed
    /\ LastConfigured[1].always_allow = <<>>
    /\ LastConfigured[1].deny = <<>>

\* C6: an MCP tool server/tool is resolved in custom[server] and then in
\* custom[server][tool]; at either level the exact name is taken if present
\* and the wildcard entry otherwise, so a wildcard entry decides for every
\* name of its scope that has no entry of its own, an exact entry decides for
\* its own name only, and a tool without a matching entry evaluates to Ask.
C6_CustomResolution ==
    (eval_result # None /\ eval_request[1].server # None) =>
        LET c == eval_request[1]
            custom == tool_perms.custom
            server_map == IF c.server \in DOMAIN custom THEN custom[c.server]
                          ELSE IF Wildcard \in DOMAIN custom THEN custom[Wildcard]
                          ELSE <<>>
            simple(perm) == IF perm = PermAlwaysAllow THEN Allow ELSE Deny
        IN /\ (c.tool \in DOMAIN server_map /\ server_map[c.tool] \in SimplePerms
                  => eval_result = simple(server_map[c.tool]))
           /\ (c.tool \notin DOMAIN server_map /\ Wildcard \in DOMAIN server_map
                  /\ server_map[Wildcard] \in SimplePerms
                  => eval_result = simple(server_map[Wildcard]))
           /\ (c.tool \notin DOMAIN server_map /\ Wildcard \notin DOMAIN server_map
                  => eval_result = Ask)

\* custom["fetch"]["*"] = AlwaysAllow decided for a tool of server fetch
C6_Witness ==
    /\ eval_result = Allow
    /\ eval_request[1].server = "fetch"
    /\ tool_perms.custom = InputCustom

(***************************************************************************)
(* Properties of the /tools commands (SpecTools)                           *)
(***************************************************************************)

\* the step executed a /tools command of the given kind
Executed(kind) == last_command' # <<>> /\ last_command'[1].kind = kind

\* C7: a trust command makes each known tool it names trusted (run without
\* asking), an untrust command makes each known tool it names require
\* confirmation, and either leaves the decision of every tool it does not
\* name as it was; so the decision for a tool is that of the last trust or
\* untrust command that named it.
C7_LastCommandDecides ==
    [][\A kind \in {"trust", "untrust"} :
          Executed(kind) =>
             \A t \in CommandToolNames :
                /\ (t \in last_command'[1].tool_names /\ tool_exists(t)
                      => is_trusted(tool_permissions', t) = (kind = "trust"))
                /\ (t \notin last_command'[1].tool_names
                      => is_trusted(tool_permissions', t) = is_trusted(tool_permissions, t))]_vars

\* a tool trusted by the last command while another, untrusted earlier, still
\* requires confirmation
C7_Witness ==
    /\ last_command = <<ToolsCommand("trust", {"fs_write"})>>
    /\ is_trusted(tool_permissions, "fs_write")
    /\ has(tool_permissions, "execute_bash")
    /\ ~is_trusted(tool_permissions, "execute_bash")

\* C8: trust, untrust and reset are idempotent: a command that repeats the
\* command executed just before it leaves the permission table as it is.
C8_Idempotent ==
    [][repeated' => tool_permissions' = tool_permissions]_vars

\* an untrust of a known tool was executed twice in a row
C8_Witness ==
    /\ repeated
    /\ last_command = <<ToolsCommand("untrust", {"fs_read", "no_such_tool"})>>
    /\ has(tool_permissions, "fs_read")

\* C9: a trust or untrust command writes "Unknown tool" for each name that is
\* not a session tool and leaves the table unchanged for that name, and still
\* processes every known name of the same command; a reset of a name that is
\* not a session tool writes "Unknown tool" and changes nothing.
C9_UnknownTool ==
    [][/\ \A kind \in {"trust", "untrust"} :
             Executed(kind) =>
                \A n \in last_command'[1].tool_names :
                   IF tool_exists(n)
                   THEN /\ has(tool_permissions', n)
                        /\ tool_permissions'[n] = (kind = "trust")
                        /\ \A i \in DOMAIN tools_output' :
                              tools_output'[i].tool = n => tools_output'[i].kind # "Unknown tool"
                   ELSE /\ \E i \in DOMAIN tools_output' :
                              tools_output'[i] = Msg("Unknown tool", n)
                        /\ has(tool_permissions', n) = has(tool_permissions, n)
                        /\ (has(tool_permissions, n) => tool_permissions'[n] = tool_permissions[n])
       /\ Executed("reset") =>
             \A n \in last_command'[1].tool_names :
                ~tool_exists(n) =>
                   /\ tools_output' = <<Msg("Unknown tool", n)>>
                   /\ tool_permissions' = tool_permissions]_vars

\* a trust command naming an unknown and a known tool was executed
C9_Witness ==
    /\ last_command = <<ToolsCommand("trust", {"no_such_tool", "fs_write"})>>
    /\ \E i \in DOMAIN tools_output : tools_output[i] = Msg("Unknown tool", "no_such_tool")
    /\ ~has(tool_permissions, "no_such_tool")
    /\ is_trusted(tool_permissions, "fs_write")

(***************************************************************************)
(* Properties of InternalCommand::requires_acceptance (SpecCmd)            *)
(***************************************************************************)

\* the words of the command: command, subcommand, args
CommandWords(cmd) ==
    <<cmd.command>>
    \o (IF cmd.subcommand = <<>> THEN <<>> ELSE cmd.subcommand)
    \o (IF cmd.args = <<>> THEN <<>> ELSE cmd.args[1])

\* the command is one of the listed read-only commands: its leading words are
\* /help, /usage, /context show, /profile list, /tools schema, /prompts list
\* or /model
ListedSafe(cmd) ==
    LET w == CommandWords(cmd)
    IN \/ w[1] \in {"help", "usage", "model"}
       \/ /\ Len(w) >= 2
          /\ <<w[1], w[2]>> \in {<<"context", "show">>, <<"profile", "list">>,
                                 <<"tools", "schema">>, <<"prompts", "list">>}

\* the command is one of the state-changing commands
StateChanging(cmd) ==
    \/ cmd.command \in {"quit", "clear"}
    \/ /\ cmd.subcommand # <<>>
       /\ <<cmd.command, cmd.subcommand[1]>> \in
             {<<"context", "add">>, <<"context", "rm">>, <<"context", "clear">>,
              <<"profile", "create">>, <<"profile", "delete">>, <<"profile", "set">>,
              <<"profile", "rename">>, <<"tools", "trust">>, <<"tools", "untrust">>,
              <<"tools", "trustall">>, <<"tools", "reset">>}

\* C10: requires_acceptance returns false only for the listed read-only
\* commands and true for every other command, in particular for every
\* state-changing command whatever its args and flags.
C10_SafeList ==
    acceptance # <<>> =>
        /\ (acceptance[1] = FALSE => ListedSafe(internal_command))
        /\ (StateChanging(internal_command) => acceptance[1] = TRUE)

(***************************************************************************)
(* Properties of the loaders and of AgentCollection (SpecLoad)             *)
(***************************************************************************)

\* the names of the agents of a list
NamesOf(list) == {list[i].name : i \in DOMAIN list}

\* how many agents of a list have the name
CountName(list, name) == Cardinality({i \in DOMAIN list : list[i].name = name})

\* the elements of s at the indices of idx, in increasing order
Pick(s, idx) ==
    [k \in 1..Cardinality(idx) |->
        s[CHOOSE i \in idx : Cardinality({j \in idx : j <= i}) = k]]

\* the names both scans returned an agent for
ConflictingNames == NamesOf(local_agents) \cap NamesOf(global_agents)

\* the global agents no local agent shares its name with, in scan order
SurvivingGlobals ==
    Pick(global_agents,
         {i \in DOMAIN global_agents : global_agents[i].name \notin NamesOf(local_agents)})

\* C11: when a local and a global agent have the same name, the collection
\* load returns holds exactly one agent of that name, the local one with the
\* local fields, and the local agents precede the surviving global agents.
C11_LocalWins ==
    loaded =>
        \A n \in ConflictingNames :
            /\ CountName(agents, n) = 1
            /\ \A i \in DOMAIN agents :
                  agents[i].name = n => \E j \in DOMAIN local_agents : local_agents[j] = agents[i]
            /\ agents = local_agents \o SurvivingGlobals

\* C11, amended: when a local and a global agent have the same name, no
\* global agent of that name is in the collection load returns: the agents
\* of that name are the local ones, as many as the local scope holds, with
\* the local fields, and the local agents precede the surviving global
\* agents.
C11_LocalWinsAmended ==
    loaded =>
        \A n \in ConflictingNames :
            /\ CountName(agents, n) = CountName(local_agents, n)
            /\ SubSeq(agents, 1, Len(local_agents)) = local_agents
            /\ \A i \in (Len(local_agents) + 1)..Len(agents) :
                  agents[i].name \notin NamesOf(local_agents)
            /\ agents = local_agents \o SurvivingGlobals

\* a local agent "a" shadows a global "a" with other fields and a global "b"
\* survives behind it
C11_Witness ==
    /\ loaded
    /\ Len(local_agents) = 1
    /\ Len(global_agents) = 2
    /\ global_agents[1].name = local_agents[1].name
    /\ global_agents[1] # local_agents[1]
    /\ global_agents[2].name # local_agents[1].name
    /\ agents = <<local_agents[1], global_agents[2]>>

\* what an mcp.json file contributes: its decoded map, or nothing when it is
\* missing, unreadable or malformed
Contribution(file) ==
    IF file.status = "present" /\ file.bytes # <<>> THEN file.bytes[1] ELSE <<>>

\* both mcp.json files were read
BothReadable == mcp_global_file.status = "present" /\ mcp_local_file.status = "present"

\* C12: with both files readable load_config returns a map whose key set is
\* the union of the key sets of the global and the local file; a key of the
\* local file has the local value, a key of the global file only has the
\* global value.
C12_LocalOverrides ==
    (mcp_result # <<>> /\ BothReadable) =>
        /\ mcp_result[1] = "Ok"
        /\ LET g == Contribution(mcp_global_file)
               l == Contribution(mcp_local_file)
               m == mcp_result[2]
           IN /\ DOMAIN m = DOMAIN g \cup DOMAIN l
              /\ \A k \in DOMAIN l : m[k] = l[k]
              /\ \A k \in DOMAIN g \ DOMAIN l : m[k] = g[k]

\* a server configured differently in both files, and one in the global
\* file only
C12_Witness ==
    /\ mcp_result # <<>>
    /\ BothReadable
    /\ LET g == Contribution(mcp_global_file)
           l == Contribution(mcp_local_file)
       IN /\ \E k \in DOMAIN g \cap DOMAIN l : g[k] # l[k] /\ mcp_result[2][k] = l[k]
          /\ \E k \in DOMAIN g \ DOMAIN l : mcp_result[2][k] = g[k]

\* how often a sequence holds the value
Occurrences(s, x) == Cardinality({i \in DOMAIN s : s[i] = x})

\* the indices of the files of a persona directory that Persona::load can
\* load: .json files that read and decode
LoadableFiles(dir) ==
    IF dir = <<>> THEN {}
    ELSE {i \in DOMAIN dir[1] :
             /\ extension(dir[1][i].file_name) = <<<<"j", "s", "o", "n">>>>
             /\ dir[1][i].read # <<>>
             /\ dir[1][i].read[1] # <<>>}

\* the names of the personas a directory yields
LoadableNames(dir) == {dir[1][i].file_name : i \in LoadableFiles(dir)}

\* C13: in each of the three merges a conflict warning is written for a
\* global entry exactly when a local entry has the same name; a global entry
\* that is kept gets no warning.
C13_WarningIffConflict ==
    /\ loaded =>
          \A n \in NamesOf(global_agents) \cup NamesOf(local_agents) :
              Occurrences(load_output, n) =
                  IF n \in NamesOf(local_agents) THEN CountName(global_agents, n) ELSE 0
    /\ (mcp_result # <<>> /\ mcp_result[1] = "Ok") =>
          \A n \in McpServerNames :
              Occurrences(mcp_output, Diag("conflict", n)) =
                  IF /\ n \in DOMAIN Contribution(mcp_global_file)
                     /\ n \in DOMAIN Contribution(mcp_local_file)
                  THEN 1 ELSE 0
    /\ personas # <<>> =>
          \A n \in PersonaFileNames :
              Occurrences(persona_output, n) =
                  IF /\ n \in LoadableNames(persona_global_dir)
                     /\ n \in LoadableNames(persona_local_dir)
                  THEN 1 ELSE 0

\* C14: the collection load returns is never empty; when neither scope
\* yields an agent it is the built-in default agent alone, and that agent is
\* active.
C14_NeverEmpty ==
    loaded =>
        /\ Len(agents) >= 1
        /\ (local_agents = <<>> /\ global_agents = <<>>) =>
              /\ agents = <<DefaultAgent>>
              /\ get_active(agents, active_idx) = <<DefaultAgent>>

\* both directories are there, the files in them are no persona files
C14_Witness ==
    /\ loaded
    /\ DirSize(local_dir) >= 1
    /\ DirSize(global_dir) >= 1
    /\ local_agents = <<>>
    /\ global_agents = <<>>
    /\ agents = <<DefaultAgent>>
    /\ active_idx = 0

\* both mcp.json files decode to the same map
SameMcpMaps ==
    /\ BothReadable
    /\ mcp_global_file.bytes # <<>>
    /\ mcp_local_file = mcp_global_file

\* C15: merging a set of entries with itself, as the local and the global
\* scope, yields exactly that set: the agent list for the agent merge, the
\* map for the MCP merge.
C15_MergeIdempotent ==
    /\ (loaded /\ local_agents = global_agents) => agents = local_agents
    /\ (mcp_result # <<>> /\ SameMcpMaps) =>
          mcp_result = <<"Ok", mcp_global_file.bytes[1]>>

\* C15, amended: merging a non-empty list of agents with itself yields that
\* list, merging the empty list with itself yields the built-in default
\* agent alone; merging an MCP map with itself yields that map.
C15_MergeIdempotentAmended ==
    /\ (loaded /\ local_agents = global_agents) =>
          agents = IF local_agents = <<>> THEN <<DefaultAgent>> ELSE local_agents
    /\ (mcp_result # <<>> /\ SameMcpMaps) =>
          mcp_result = <<"Ok", mcp_global_file.bytes[1]>>

\* both scopes hold the same agent, and every global one raised a warning
C15_Witness ==
    /\ loaded
    /\ local_agents = global_agents
    /\ local_agents # <<>>
    /\ Len(load_output) = Len(global_agents)
    /\ agents = local_agents

\* the decode diagnostics written for a scope
DecodeErrors(location) == Occurrences(mcp_output, Diag("decode_error", location))

\* an mcp.json file that was read and does not decode
Malformed(file) == file.status = "present" /\ file.bytes = <<>>

\* C16: load_config returns a configuration whatever the state of the two
\* files; a missing or unreadable file contributes no entry and no
\* diagnostic, a malformed file contributes no entry and one diagnostic
\* naming its scope, and the entries of the other scope are all kept.
C16_NeverPropagates ==
    mcp_result # <<>> =>
        /\ mcp_result[1] = "Ok"
        /\ DOMAIN mcp_result[2] =
              DOMAIN Contribution(mcp_global_file) \cup DOMAIN Contribution(mcp_local_file)
        /\ DecodeErrors("global") = IF Malformed(mcp_global_file) THEN 1 ELSE 0
        /\ DecodeErrors("local") = IF Malformed(mcp_local_file) THEN 1 ELSE 0

\* the indices of the entries of a persona directory that decode to an agent
LoadableEntries(dir) ==
    IF dir = <<>> THEN {}
    ELSE {i \in DOMAIN dir[1] :
             /\ dir[1][i].extension = "json"
             /\ dir[1][i].read # <<>>
             /\ dir[1][i].read[1] # <<>>}

\* the agents a persona directory holds, in the order of its entries
LoadableAgents(dir) ==
    IF dir = <<>> THEN <<>>
    ELSE LET good == Pick(dir[1], LoadableEntries(dir))
         IN [k \in DOMAIN good |-> good[k].read[1][1]]

\* the personas a persona directory holds, in the order of its entries
LoadablePersonas(dir, scope) ==
    IF dir = <<>> THEN <<>>
    ELSE LET good == Pick(dir[1], LoadableFiles(dir))
         IN [k \in DOMAIN good |->
                [scope |-> scope, name |-> good[k].file_name, config |-> good[k].read[1][1]]]

\* C17: a scan of a persona directory loads every .json file that reads and
\* decodes, whatever the other entries are: files with another extension
\* are ignored, files that fail to read or decode are skipped, and neither
\* removes or alters what the remaining files load.
C17_ScanSkipsBadFiles ==
    /\ loaded =>
          /\ local_agents = LoadableAgents(local_dir)
          /\ global_agents = LoadableAgents(global_dir)
          /\ \A i \in DOMAIN local_agents : agents[i] = local_agents[i]
    /\ personas # <<>> =>
          LET l == LoadablePersonas(persona_local_dir, "Local")
              g == LoadablePersonas(persona_global_dir, "Global")
          IN personas[1] =
                 l \o Pick(g, {i \in DOMAIN g : g[i].name \notin LoadableNames(persona_local_dir)})

\* a file that does not load comes before a persona file that does
C17_Witness ==
    /\ loaded
    /\ DirSize(local_dir) = 3
    /\ local_dir[1][1].extension = "json"
    /\ local_dir[1][1].read = <<>>
    /\ local_dir[1][2].extension = "txt"
    /\ 3 \in LoadableEntries(local_dir)
    /\ agents = <<local_dir[1][3].read[1][1]>>

\* C18: a switch to the name of a loaded agent succeeds and makes the agent
\* of that name the active one.
C18_SwitchActivates ==
    (switch_request # <<>> /\ switch_request[1] \in NamesOf(agents)) =>
        /\ switch_result[1] = "Ok"
        /\ get_active(agents, active_idx) # <<>>
        /\ get_active(agents, active_idx)[1].name = switch_request[1]

\* a step of AgentCollection::switch
SwitchStep ==
    <<switch_request, switch_result, active_idx>>' # <<switch_request, switch_result, active_idx>>

\* C19: a switch to a name no loaded agent has returns a failure and leaves
\* active_idx and agents as they were.
C19_SwitchUnknownFails ==
    [][(SwitchStep /\ switch_request'[1] \notin NamesOf(agents)) =>
          /\ switch_result'[1] = "Err"
          /\ active_idx' = active_idx
          /\ agents' = agents]_vars

\* a step of AgentCollection::publish
PublishStep == <<publish_result, received>>' # <<publish_result, received>>

\* C20: publish hands the subscriber one copy of the active agent, the one
\* the last successful switch returned or the first one after load, and
\* succeeds; it fails, handing over nothing, exactly when active_idx is no
\* index of agents.
C20_PublishActive ==
    [][PublishStep =>
          IF active_idx + 1 \in 1..Len(agents)
          THEN /\ publish_result' = <<"Ok">>
               /\ received' = <<agents[active_idx + 1]>>
               /\ (switch_result # <<>> /\ switch_result[1] = "Ok") =>
                     received'[1].name = switch_result[2]
               /\ (switch_result = <<>> /\ loaded) => received' = <<agents[1]>>
          ELSE /\ publish_result' = <<"Err">>
               /\ received' = <<>>]_vars

\* the agent a switch returned was published to the subscriber
C20_Witness ==
    /\ Len(agents) >= 2
    /\ switch_result # <<>>
    /\ switch_result[1] = "Ok"
    /\ publish_result = <<"Ok">>
    /\ received = <<agents[active_idx + 1]>>
    /\ received[1].name = switch_result[2]

\* C28: after AgentCollection::load, whatever switch calls follow,
\* active_idx is an index into agents, get_active returns an agent, and no
\* publish fails.
C28_ActiveIdxValid ==
    loaded =>
        /\ active_idx \in 0..(Len(agents) - 1)
        /\ get_active(agents, active_idx) = <<agents[active_idx + 1]>>
        /\ publish_result # <<"Err">>

\* a loaded collection of two agents was switched and then published
C28_Witness ==
    /\ loaded
    /\ Len(agents) = 2
    /\ switch_result # <<>>
    /\ publish_result = <<"Ok">>
    /\ received = <<agents[active_idx + 1]>>

(***************************************************************************)
(* Properties of the session command handlers (SpecSession)                *)
(***************************************************************************)

\* a step of a command handler
HandlerStep ==
    <<chat_result, session_command, session_output, toolsVars>>'
        # <<chat_result, session_command, session_output, toolsVars>>

\* the handler that ran met a logical error: a context or profile command
\* without a context manager or whose context manager call failed, a context
\* command without paths, a tools command naming an unknown tool
LogicalError ==
    LET kind == session_command'[1]
    IN \/ /\ kind \in {"context add", "context rm", "profile set", "profile delete"}
          /\ \/ context_manager = <<>>
             \/ session_command'[2] = <<>>
             \/ \E i \in DOMAIN session_output' :
                   session_output'[i] \in {"Error", "Error switching profile",
                                           "Error deleting profile"}
       \/ /\ kind \in {"tools trust", "tools reset"}
          /\ \E n \in last_command'[1].tool_names : ~tool_exists(n)

\* the handler wrote an error message
Reported ==
    \/ \E i \in DOMAIN session_output' :
          session_output'[i] \in {"Error", "Error switching profile", "Error deleting profile",
                                  "Error: Context manager not initialized",
                                  "Context manager is not available"}
    \/ \E i \in DOMAIN tools_output' : tools_output'[i].kind = "Unknown tool"

\* C21: a handler that meets a logical error reports it and returns
\* ChatState::PromptUser with the tool_uses and pending_tool_index it was
\* given.
C21_ErrorsReturnPrompt ==
    [][(HandlerStep /\ LogicalError) =>
          /\ Reported
          /\ chat_result' = <<"Ok", PromptUser(tool_uses, pending_tool_index)>>]_vars

\* C21, amended: a handler that meets a logical error reports it and returns
\* ChatState::PromptUser with the tool_uses and pending_tool_index it was
\* given, except that /context add and /context rm without paths write
\* nothing and return the failure ChatError::Custom to their caller.
C21_ErrorsReturnPromptAmended ==
    [][(HandlerStep /\ LogicalError) =>
          IF session_command'[1] \in {"context add", "context rm"} /\ session_command'[2] = <<>>
          THEN /\ chat_result' = Custom("No paths specified")
               /\ session_output' = <<>>
          ELSE /\ Reported
               /\ chat_result' = <<"Ok", PromptUser(tool_uses, pending_tool_index)>>]_vars

\* a failing /context add handed back the pending tool use
C21_Witness ==
    /\ session_command = <<"context add", <<"p1">>>>
    /\ session_output = <<"Error">>
    /\ tool_uses # <<>>
    /\ pending_tool_index # <<>>
    /\ chat_result = <<"Ok", PromptUser(tool_uses, pending_tool_index)>>

(***************************************************************************)
(* Properties of the /context parsers (SpecParse)                          *)
(***************************************************************************)

\* the arguments that are no flag of the subcommand, in their order
PathsOf(args, flags) == Pick(args, {i \in DOMAIN args : args[i] \notin flags})

\* C27: --global, and --force for add, set their boolean wherever they
\* stand among the arguments, every other argument becomes a path, the paths
\* keep their order, and the boolean of an absent flag is false.
C27_FlagsAnywhere ==
    parse_input # <<>> =>
        LET in == parse_input[1]
            has_flag(f) == \E i \in DOMAIN in.args : in.args[i] = f
            flags == IF in.subcommand = "add" THEN {"--global", "--force"} ELSE {"--global"}
        IN parse_result[1] = "Ok" =>
              /\ parse_result[2].global = has_flag("--global")
              /\ parse_result[2].force = (in.subcommand = "add" /\ has_flag("--force"))
              /\ parse_result[2].paths = PathsOf(in.args, flags)

(***************************************************************************)
(* Properties of the wire format of the permission tables (SpecCodec)      *)
(***************************************************************************)

\* the entries of a map as pairs of canonical string and value
CanonEntries(entries) == {<<borrow(entries[i][1]), entries[i][2]>> : i \in DOMAIN entries}

\* two tables hold the same permissions under the same subjects
SameTable(t, u) ==
    /\ CanonEntries(t.built_in) = CanonEntries(u.built_in)
    /\ {<<borrow(t.custom[i][1]), CanonEntries(t.custom[i][2])>> : i \in DOMAIN t.custom}
         = {<<borrow(u.custom[i][1]), CanonEntries(u.custom[i][2])>> : i \in DOMAIN u.custom}

\* C22: serializing a ToolPermissions table and decoding what was written
\* succeeds and gives a table equal to the original.
C22_RoundTrip ==
    round_trip # <<>> =>
        /\ round_trip[1] = "Ok"
        /\ SameTable(round_trip[2], table_input[1])

\* the array a JSON object gives for a key: that of its last member with
\* the key, the empty list without one
ListOf(entries, key) ==
    LET at == {i \in DOMAIN entries : entries[i][1] = key}
    IN IF at = {} THEN <<>>
       ELSE entries[CHOOSE i \in at : \A j \in at : j <= i][2].items

\* C23: "alwaysAllow" decodes to AlwaysAllow and "deny" to Deny; an object
\* whose keys are alwaysAllow and deny, with arrays of strings as values,
\* decodes to DetailedList with these arrays, an absent key giving the empty
\* list; every other string and every object with another key is a decode
\* error.
C23_DecodePermission ==
    decoded # <<>> =>
        LET json == json_input[1]
            keys == {json.entries[i][1] : i \in DOMAIN json.entries}
        IN /\ json.t = "string" =>
                 decoded = CASE json.s = "alwaysAllow" -> <<"Ok", PermAlwaysAllow>>
                             [] json.s = "deny" -> <<"Ok", PermDeny>>
                             [] OTHER -> CodecErr("unknown variant")
           /\ (json.t = "object" /\ ~(keys \subseteq {"alwaysAllow", "deny"})) =>
                 decoded[1] = "Err"
           /\ (/\ json.t = "object"
               /\ keys \subseteq {"alwaysAllow", "deny"}
               /\ \A i \in DOMAIN json.entries : json.entries[i][2].t = "array") =>
                 decoded = <<"Ok", DetailedList(ListOf(json.entries, "alwaysAllow"),
                                                ListOf(json.entries, "deny"))>>

\* an object with the key deny alone was decoded
C23_Witness ==
    /\ json_input = <<JMap(<<<<"deny", JList(<<"a">>)>>>>)>>
    /\ decoded = <<"Ok", DetailedList(<<>>, <<"a">>)>>

(***************************************************************************)
(* Properties of PermissionSubject as a map key (SpecSubject)              *)
(***************************************************************************)

\* the canonical string of a subject, read off its variant
CanonicalString(subject) ==
    CASE subject.variant = "All" -> "*"
      [] subject.variant = "ExactName" -> subject.name

\* the permission last inserted under a subject with the canonical string
LastInserted(name) ==
    LET at == {i \in DOMAIN insert_log : CanonicalString(insert_log[i][1]) = name}
    IN IF at = {} THEN <<>>
       ELSE <<insert_log[CHOOSE i \in at : \A j \in at : j <= i][2]>>

\* C24: subjects are compared and hashed by their canonical string: All
\* equals ExactName("*"), two subjects are equal exactly when their canonical
\* strings are, equal subjects have equal hashes, and what was stored under
\* a subject is what a lookup with its canonical string returns.
C24_CanonicalKey ==
    /\ \A i, j \in DOMAIN insert_log :
          LET a == insert_log[i][1]
              b == insert_log[j][1]
          IN /\ subject_eq(a, b) <=> (CanonicalString(a) = CanonicalString(b))
             /\ subject_eq(a, b) => subject_hash(a) = subject_hash(b)
    /\ \A i \in DOMAIN insert_log :
          /\ insert_log[i][1] = SubjectAll => subject_eq(insert_log[i][1], ExactName("*"))
          /\ bucket_get(subject_map, CanonicalString(insert_log[i][1]))
                = LastInserted(CanonicalString(insert_log[i][1]))
    /\ (lookup_key # <<>> /\ Len(insert_log) = lookup_after) =>
          lookup_result = LastInserted(lookup_key[1])

\* an entry stored under All and overwritten under ExactName("*") was looked
\* up with "*"
C24_Witness ==
    /\ Len(insert_log) >= 2
    /\ insert_log[1] = <<SubjectAll, PermAlwaysAllow>>
    /\ insert_log[2] = <<ExactName("*"), PermDeny>>
    /\ lookup_key = <<"*">>
    /\ lookup_after = 2
    /\ lookup_result = <<PermDeny>>

(***************************************************************************)
(* Properties of CompletionCache under one caller (SpecCache, SpecMatch)   *)
(***************************************************************************)

\* the values the cache holds for a (category, key) pair
StoredSet(tbl, p) ==
    IF tbl[p[1]] = <<>> THEN {}
    ELSE IF tbl[p[1]][1][p[2]] = <<>> THEN {}
    ELSE {tbl[p[1]][1][p[2]][1][i] : i \in DOMAIN tbl[p[1]][1][p[2]][1]}

\* what a call makes of the set of its pair, in a map from pairs to sets
Applied(call, set) ==
    CASE call.op = "update" -> {call.values[i] : i \in DOMAIN call.values}
      [] call.op = "add" -> set \cup {call.values[1]}
      [] call.op = "remove" -> set \ {call.values[1]}
      [] call.op = "clear" -> {}
      [] OTHER -> set

\* strictly ascending in the byte order of strings
Ascending(seq) == \A i \in 1..(Len(seq) - 1) : str_less(seq[i], seq[i + 1])

\* C25: every call changes the sets as a map from (category, key) to a set
\* of strings prescribes: update replaces the set of its pair, add inserts
\* one value, remove deletes one value, clear empties the set, and the set
\* of every other pair stays as it was; get returns the values of its pair
\* in ascending order and without duplicates.
C25_MapOfSets ==
    [][LET call == cache_call'[1]
       IN /\ \A p \in Categories \X Keys :
                StoredSet(cache', p) = IF p = <<call.category, call.key>>
                                       THEN Applied(call, StoredSet(cache, p))
                                       ELSE StoredSet(cache, p)
          /\ call.op = "get" =>
                /\ Ascending(cache_result')
                /\ {cache_result'[i] : i \in DOMAIN cache_result'}
                      = StoredSet(cache, <<call.category, call.key>>)]_vars

\* get returned two values in order while another pair held a value
C25_Witness ==
    /\ cache_call = <<Call("get", "c1", "k1", <<>>, "", 0)>>
    /\ cache_result = <<"a", "b">>
    /\ StoredSet(cache, <<"c1", "k2">>) = {"b"}
    /\ StoredSet(cache, <<"c2", "k1">>) = {}

\* the stored values that match a query
Matching(set, query) ==
    {v \in set : \/ starts_with(v, query)
                 \/ contains(to_lowercase(v), to_lowercase(query))}

\* C26: get_best_matches returns at most max values, each a stored value
\* that starts with the query or contains it case-insensitively, none of
\* them twice, as many as match unless the limit cuts them off, and every
\* value that starts with the query before every value that only contains
\* it.
C26_BestMatches ==
    cache_call # <<>> =>
        LET call == cache_call[1]
            matching == Matching(StoredSet(cache, <<call.category, call.key>>), call.query)
            n == Cardinality(matching)
        IN call.op = "get_best_matches" =>
              /\ Len(cache_result) = IF n < call.max_results THEN n ELSE call.max_results
              /\ \A i \in DOMAIN cache_result : cache_result[i] \in matching
              /\ \A i, j \in DOMAIN cache_result : i # j => cache_result[i] # cache_result[j]
              /\ \A i, j \in DOMAIN cache_result :
                    (starts_with(cache_result[j], call.query)
                        /\ ~starts_with(cache_result[i], call.query)) => j < i

\* a value that starts with the query was moved before one that contains it
C26_Witness ==
    /\ cache_call = <<Call("get_best_matches", "c1", "k1", <<>>, "b", 2)>>
    /\ StoredSet(cache, <<"c1", "k1">>) = {"Ab", "ba"}
    /\ cache_result = <<"ba", "Ab">>

(***************************************************************************)
(* Properties of tab completion (SpecCompletion)                           *)
(***************************************************************************)

\* C30: for a partial top-level command, with or without a completion
\* context, the suggestions are the top-level commands whose name starts with
\* what was typed, whatever was completed before.
C30_SameWithContext ==
    completion_request # <<>> =>
        LET partial == completion_request[1].partial
        IN ~partial.space =>
              {completion_result[i] : i \in DOMAIN completion_result}
                 = {<<"/", all_commands[i]>> : i \in
                       {j \in DOMAIN all_commands : IsPrefix(partial.prefix, chars[all_commands[j]])}}

(***************************************************************************)
(* Properties of CompletionCache under concurrent callers (SpecThreads)    *)
(***************************************************************************)

\* the orders in which some of the threads can run one after the other
Schedules ==
    {order \in UNION {[1..n -> Procs] : n \in 0..Cardinality(Procs)} :
        \A i, j \in DOMAIN order : i # j => order[i] # order[j]}

\* the set of the pair after the calls of a schedule ran one at a time
RECURSIVE AfterSchedule(_, _)
AfterSchedule(order, set) ==
    IF order = <<>> THEN set
    ELSE AfterSchedule(Tail(order), Applied(calls[Head(order)], set))

\* the sets the pair holds between whole calls
AtomicSets ==
    {AfterSchedule(order, StoredSet(cache_at_start, <<"c1", "k1">>)) : order \in Schedules}

\* the sets the pair can hold once every call has run
FinalSets ==
    {AfterSchedule(order, StoredSet(cache_at_start, <<"c1", "k1">>)) :
        order \in {o \in Schedules : Len(o) = Cardinality(Procs)}}

\* the values of a set as some sequence
SeqOf(set) == CHOOSE seq \in [1..Cardinality(set) -> set] : \A v \in set : \E i \in DOMAIN seq : seq[i] = v

\* C29: every call takes effect at once: what a get or get_best_matches
\* returns is what it would return on a set the pair holds between whole
\* calls of the other threads, never on a cleared or half filled set, and
\* once all calls have returned the pair holds what the calls give when run
\* one after the other in some order, so that no add is lost.
C29_Atomic ==
    /\ \A p \in Procs :
          ret[p] # <<>> =>
             \E set \in AtomicSets :
                IF calls[p].op = "get"
                THEN /\ Ascending(ret[p][1])
                     /\ {ret[p][1][i] : i \in DOMAIN ret[p][1]} = set
                ELSE ret[p][1] = take(SelectSeq(SeqOf(set),
                                          LAMBDA v : starts_with(v, calls[p].query))
                                      \o SelectSeq(SeqOf(set),
                                          LAMBDA v : ~starts_with(v, calls[p].query)
                                              /\ contains(to_lowercase(v),
                                                          to_lowercase(calls[p].query))),
                                      calls[p].max_results)
    /\ (\A p \in Procs : pc[p] = "done") =>
          StoredSet(cache, <<"c1", "k1">>) \in FinalSets

\* two adds and a get ran to the end and both values are stored
C29_Witness ==
    /\ calls[1].op = "add" /\ calls[1].values = <<"a">>
    /\ calls[2].op = "add" /\ calls[2].values = <<"ab">>
    /\ calls[3].op = "get"
    /\ \A p \in Procs : pc[p] = "done"
    /\ ret[3] = <<<<"a">>>>
    /\ StoredSet(cache, <<"c1", "k1">>) = {"a", "ab"}

====
